---- MODULE Spec2Model ----
(***************************************************************************)
(* Document synchronization engine of clawdbot-feishu                      *)
(* (src/src/doc-write-service.ts): writeDoc / appendDoc, the batch insert  *)
(* engine, the retry wrapper and the table reconciler, run against a       *)
(* remote block store whose responses are chosen nondeterministically.     *)
(* One action is the code between two awaits of the TypeScript source.     *)
(***************************************************************************)
EXTENDS Integers, Sequences, FiniteSets, TLC

VARIABLES
  ps,     \* ps[p]: the local state of operation p (arguments, locals, position)
  docs,   \* docs[d]: the remote document d (root children, table-cell children)
  env     \* the run's environment: convert outputs on offer, faults left

vars == <<ps, docs, env>>

(***************************************************************************)
(* Bounds of the model                                                     *)
(***************************************************************************)
\* Longest top-level order of a converted document in the family "doc".
MaxTop == 2
\* Non-success create responses the remote may give in one run, family "doc".
MaxFaults == 1
\* Root children a document may hold before a write.
MaxExisting == 2
\* Non-success create responses in one run of the family "retry".
RetryFaults == 5
\* Non-success create responses in one run of the family "bulk".
BulkFaults == 1
\* Anomalous create responses in one run of the family "table".
TableFaults == 2
\* Non-success create responses in one run of the family "pair".
PairFaults == 3
\* Extra blocks past two full chunks in the family "bulk" (2 * 50 + 20 = 120).
BulkTail == 20
\* Math.random() is sampled at k / RandomSteps, k = 0 .. RandomSteps.
RandomSteps == 2
\* Failing download / upload / patch outcomes in one run of the family "image".
ImageFaults == 2
\* Failing create / download / upload / patch outcomes in one run of SpecCreate.
CreateFaults == 1
\* Non-plain create responses in one run of the family "classify".
ClassifyFaults == 2
\* Non-success responses in one run of the family "docx".
DocxFaults == 1
\* Non-success create responses in one run of the family "concurrent".
ConcurrentFaults == 1
\* Non-success create responses in one run of the family "exhaust": enough for
\* a batch of two blocks and both of its single calls to use every attempt.
ExhaustFaults == 12
\* Body lengths sampled on each side of a length limit of applyStylePresetSafely.
StyleSlack == 2
\* Longest text of the alphabet handed to chunkFeishuReplyText.
MaxChunkText == 6
\* Largest chunk limit handed to chunkFeishuReplyText.
MaxChunkLimit == 4
\* Minutes of clock time over which tryRecordMessage is followed.
DedupHorizonMinutes == 36
\* Calls of tryRecordMessage in one run.
DedupCalls == 3
\* Longest first_level_block_ids list in the family "order".
OrderLen == 3

(***************************************************************************)
(* Program constants                                                       *)
(***************************************************************************)
TPage == 1
TText == 2
TImage == 27
TTable == 31
TTableCell == 32

BLOCK_TYPE_NAMES ==
  [t \in {TPage, TText, TImage, TTable, TTableCell} |->
     CASE t = TPage -> "Page"
       [] t = TText -> "Text"
       [] t = TImage -> "Image"
       [] t = TTable -> "Table"
       [] t = TTableCell -> "TableCell"]

UNSUPPORTED_CREATE_TYPES == {TTableCell}

MAX_BLOCKS_PER_INSERT == 50

maxAttempts == 4
baseDelayMs == 250
maxDelayMs == 2500
\* jitterRatio 0.2, in percent
jitterRatioPct == 20

CodeThrottle == 429
CodeTooMany == 1254290
CodeWriteConflict == 1254291
CodeTimeout == 1255040
\* a code of the remote store that is not in the retryable set
CodeInvalidParam == 1770001

RETRYABLE_CREATE_ERROR_CODES == {CodeThrottle, CodeTooMany, CodeWriteConflict, CodeTimeout}

(***************************************************************************)
(* Sequence helpers                                                        *)
(***************************************************************************)
Min(a, b) == IF a <= b THEN a ELSE b
Max(a, b) == IF a >= b THEN a ELSE b

Range(q) == {q[i] : i \in 1..Len(q)}

\* Array.prototype.slice(from, to), 0-based, half-open, clamped
Slice(q, from, to) == SubSeq(q, from + 1, Min(to, Len(q)))

\* [...new Set(q)]: first occurrences, in order
Dedupe(q) ==
  LET first == {i \in 1..Len(q) : \A j \in 1..(i - 1) : q[j] # q[i]}
  IN [k \in 1..Cardinality(first) |->
        q[CHOOSE i \in first : Cardinality({j \in first : j <= i}) = k]]

RECURSIVE Flatten(_)
Flatten(qq) == IF qq = <<>> THEN <<>> ELSE Head(qq) \o Flatten(Tail(qq))

RECURSIVE SumSeq(_)
SumSeq(q) == IF q = <<>> THEN 0 ELSE Head(q) + SumSeq(Tail(q))

RECURSIVE Pow2(_)
Pow2(n) == IF n <= 0 THEN 1 ELSE 2 * Pow2(n - 1)

(***************************************************************************)
(* Blocks. block_id 0 is an absent id, content identifies the payload      *)
(* (text runs, image, table property) that sanitation keeps.               *)
(***************************************************************************)
Blk(id, parent, type, children, cells, merge, content) ==
  [block_id |-> id, parent_id |-> parent, block_type |-> type,
   children |-> children, cells |-> cells, merge_info |-> merge,
   content |-> content]

TypeName(t) ==
  IF t \in DOMAIN BLOCK_TYPE_NAMES THEN BLOCK_TYPE_NAMES[t] ELSE "type_other"

\* reorderBlocks / buildBlockMap: block_id -> block, the last block of an id wins
buildBlockMap(blocks) ==
  [id \in {blocks[i].block_id : i \in {j \in 1..Len(blocks) : blocks[j].block_id # 0}} |->
     LET last == CHOOSE i \in 1..Len(blocks) :
                   /\ blocks[i].block_id = id
                   /\ \A j \in (i + 1)..Len(blocks) : blocks[j].block_id # id
     IN blocks[last]]

\* ids.map((id) => blockMap.get(id)).filter(Boolean)
Resolve(blockMap, ids) ==
  LET hit == SelectSeq(ids, LAMBDA id : id \in DOMAIN blockMap)
  IN [i \in 1..Len(hit) |-> blockMap[hit[i]]]

\* mutant: the converter's order is kept
reorderBlocks_Unordered(blocks, firstLevelBlockIds) == blocks

\* mutant: a total lookup failure yields no blocks
reorderBlocks_NoFallback(blocks, firstLevelBlockIds) ==
  IF Len(firstLevelBlockIds) = 0 THEN blocks
  ELSE Resolve(buildBlockMap(blocks), firstLevelBlockIds)

reorderBlocks(blocks, firstLevelBlockIds) ==
  IF Len(firstLevelBlockIds) = 0 THEN blocks
  ELSE LET ordered == Resolve(buildBlockMap(blocks), firstLevelBlockIds)
       IN IF Len(ordered) > 0 THEN ordered ELSE blocks

\* mutant: no type is filtered out
IsSupported_All(block) == TRUE

IsSupported(block) == block.block_type \notin UNSUPPORTED_CREATE_TYPES

\* the .map() of cleanBlocksForInsert: a copy without the read-only fields
CleanOne(block) ==
  [block EXCEPT !.block_id = 0, !.parent_id = 0, !.children = <<>>,
                !.cells = <<>>, !.merge_info = FALSE]

cleanBlocksForInsert(blocks) ==
  LET kept == SelectSeq(blocks, IsSupported)
      dropped == SelectSeq(blocks, LAMBDA b : ~IsSupported(b))
  IN [cleaned |-> [i \in 1..Len(kept) |-> CleanOne(kept[i])],
      skipped |-> [i \in 1..Len(dropped) |-> TypeName(dropped[i].block_type)]]

(***************************************************************************)
(* Retry policy                                                            *)
(***************************************************************************)
\* A response without a code (res.code is undefined).
NoCode == 0 - 2

\* The sampled messages. Characters outside ASCII are written by their code
\* points: U+9891U+7387 and U+9650U+6D41 are the two words of lines 166-167.
SampledMessages ==
  {"", "success", "rate limit exceeded", "Rate Limit", "ratelimited", "too many requests",
   "many requests too", "frequency capped", "QPS exceeded", "invalid param",
   "request timeout", "socket hang up",
   "U+8BF7U+6C42U+9891U+7387U+8FC7U+9AD8", "U+89E6U+53D1U+9650U+6D41"}

\* the maximal runs of word characters of a message, and for a message outside
\* ASCII its segments around the two words of lines 166-167
MessageWords(msg) ==
  CASE msg = "" -> <<>>
    [] msg = "rate limit exceeded" -> <<"rate", "limit", "exceeded">>
    [] msg = "Rate Limit" -> <<"Rate", "Limit">>
    [] msg = "too many requests" -> <<"too", "many", "requests">>
    [] msg = "many requests too" -> <<"many", "requests", "too">>
    [] msg = "frequency capped" -> <<"frequency", "capped">>
    [] msg = "QPS exceeded" -> <<"QPS", "exceeded">>
    [] msg = "invalid param" -> <<"invalid", "param">>
    [] msg = "request timeout" -> <<"request", "timeout">>
    [] msg = "socket hang up" -> <<"socket", "hang", "up">>
    [] msg = "U+8BF7U+6C42U+9891U+7387U+8FC7U+9AD8" ->
         <<"U+8BF7U+6C42", "U+9891U+7387", "U+8FC7U+9AD8">>
    [] msg = "U+89E6U+53D1U+9650U+6D41" -> <<"U+89E6U+53D1", "U+9650U+6D41">>
    [] OTHER -> <<msg>>

\* the i flag: the lower-case form of a sampled word
ToLower(word) ==
  CASE word = "Rate" -> "rate"
    [] word = "Limit" -> "limit"
    [] word = "QPS" -> "qps"
    [] OTHER -> word

\* RETRYABLE_MESSAGE_PATTERNS (lines 160-168): five whole words or phrases
\* without regard to case, two words outside ASCII anywhere in the text
RETRYABLE_MESSAGE_PATTERNS ==
  <<"rate", "frequency", "too many", "limit", "qps", "U+9891U+7387", "U+9650U+6D41">>

\* pattern.test(text)
PatternMatches(pattern, text) ==
  LET w == MessageWords(text) IN
  CASE pattern = "too many" ->
         \E i \in 1..(Len(w) - 1) : ToLower(w[i]) = "too" /\ ToLower(w[i + 1]) = "many"
    [] pattern \in {"U+9891U+7387", "U+9650U+6D41"} -> \E i \in 1..Len(w) : w[i] = pattern
    [] OTHER -> \E i \in 1..Len(w) : ToLower(w[i]) = pattern

\* The sampled messages that one of RETRYABLE_MESSAGE_PATTERNS matches.
RetryableMessages ==
  {m \in SampledMessages :
     \E k \in 1..Len(RETRYABLE_MESSAGE_PATTERNS) : PatternMatches(RETRYABLE_MESSAGE_PATTERNS[k], m)}

\* mutant: only the code decides
isRetryableCreateError_CodesOnly(code, msg) ==
  IF code = NoCode \/ code = 0 THEN FALSE
  ELSE code \in RETRYABLE_CREATE_ERROR_CODES

isRetryableCreateError(code, msg) ==
  IF code = NoCode \/ code = 0 THEN FALSE
  ELSE IF code \in RETRYABLE_CREATE_ERROR_CODES THEN TRUE
  ELSE \E k \in 1..Len(RETRYABLE_MESSAGE_PATTERNS) :
         PatternMatches(RETRYABLE_MESSAGE_PATTERNS[k], msg)

\* mutant: the exponent is the attempt, not the attempt less one
computeBackoffDelayMs_Doubled(attempt, k) ==
  LET exp == Min(maxDelayMs, baseDelayMs * Pow2(attempt))
      jitter == (exp * jitterRatioPct) \div 100
      lo == Max(0, exp - jitter)
      hi == exp + jitter
  IN lo + ((2 * k * (hi - lo) + RandomSteps) \div (2 * RandomSteps))

\* computeBackoffDelayMs with Math.random() = k / RandomSteps
computeBackoffDelayMs(attempt, k) ==
  LET exp == Min(maxDelayMs, baseDelayMs * Pow2(attempt - 1))
      jitter == (exp * jitterRatioPct) \div 100
      lo == Max(0, exp - jitter)
      hi == exp + jitter
  IN lo + ((2 * k * (hi - lo) + RandomSteps) \div (2 * RandomSteps))

(***************************************************************************)
(* The inputs: markdown texts and what the remote converter may return for *)
(* them. A converted document is built from its top-level items: "T" a     *)
(* text block, "C" a table-cell block, "B" a table of two cells whose      *)
(* first cell holds one text block, "W" a table of three cells: the first  *)
(* holds two text blocks, the second nothing, the third carries its text   *)
(* on the cell itself, "E" a table that lists no cells, "I" an image.      *)
(***************************************************************************)
Markdowns == {"", " \n", "# Title"}

\* markdowns with image references: two http(s) images; three http(s) images
\* and one that is not http(s)
ImageMarkdowns ==
  {"![a](https://h/1.png) ![b](http://h/2.png)",
   "![a](https://h/1.png) ![b](ftp://h/x.png) ![c](https://h/2.png) ![d](https://h/3.png)"}

\* the matches of the image pattern of extractImageUrls (line 70) in the sampled
\* markdowns, in textual order: the trimmed target of each match
ImageTargets(markdown) ==
  IF markdown = "![a](https://h/1.png) ![b](http://h/2.png)"
  THEN <<[scheme |-> "https", rest |-> "h/1.png"], [scheme |-> "http", rest |-> "h/2.png"]>>
  ELSE IF markdown =
    "![a](https://h/1.png) ![b](ftp://h/x.png) ![c](https://h/2.png) ![d](https://h/3.png)"
  THEN <<[scheme |-> "https", rest |-> "h/1.png"], [scheme |-> "ftp", rest |-> "h/x.png"],
         [scheme |-> "https", rest |-> "h/2.png"], [scheme |-> "https", rest |-> "h/3.png"]>>
  ELSE <<>>

\* mutant: every target counts, whatever its scheme
extractImageUrls_AnyScheme(markdown) == ImageTargets(markdown)

extractImageUrls(markdown) ==
  SelectSeq(ImageTargets(markdown), LAMBDA u : u.scheme \in {"http", "https"})

\* String.prototype.trim on the sampled markdowns
Trim(markdown) == IF markdown = " \n" THEN "" ELSE markdown

ProvId(j) == 100 + 10 * j

ItemBlocks(kind, j) ==
  LET id == ProvId(j) IN
  CASE kind = "T" -> <<Blk(id, 0, TText, <<>>, <<>>, FALSE, id)>>
    [] kind = "C" -> <<Blk(id, 0, TTableCell, <<>>, <<>>, FALSE, 0)>>
    [] kind = "B" ->
         <<Blk(id, 0, TTable, <<id + 1, id + 2>>, <<id + 1, id + 2>>, TRUE, id),
           Blk(id + 1, id, TTableCell, <<id + 3>>, <<>>, FALSE, 0),
           Blk(id + 3, id + 1, TText, <<>>, <<>>, FALSE, id + 3),
           Blk(id + 2, id, TTableCell, <<>>, <<>>, FALSE, 0)>>
    [] kind = "E" -> <<Blk(id, 0, TTable, <<>>, <<>>, TRUE, id)>>
    [] kind = "I" -> <<Blk(id, 0, TImage, <<>>, <<>>, FALSE, id)>>
    [] kind = "W" ->
         <<Blk(id, 0, TTable, <<id + 1, id + 2, id + 3>>, <<id + 1, id + 2, id + 3>>, TRUE, id),
           Blk(id + 1, id, TTableCell, <<id + 4, id + 5>>, <<>>, FALSE, 0),
           Blk(id + 4, id + 1, TText, <<>>, <<>>, FALSE, id + 4),
           Blk(id + 5, id + 1, TText, <<>>, <<>>, FALSE, id + 5),
           Blk(id + 2, id, TTableCell, <<>>, <<>>, FALSE, 0),
           Blk(id + 3, id, TTableCell, <<>>, <<>>, FALSE, id + 6)>>

NaturalBlocks(kinds) == Flatten([j \in 1..Len(kinds) |-> ItemBlocks(kinds[j], j)])

TopLevelIds(kinds) == [j \in 1..Len(kinds) |-> ProvId(j)]

KindSeqs(kindSet, n) == UNION {[1..m -> kindSet] : m \in 0..n}

Reverse(q) == [i \in 1..Len(q) |-> q[Len(q) + 1 - i]]

Rotate(q, k) == SubSeq(q, k + 1, Len(q)) \o SubSeq(q, 1, k)

\* the orders in which the converter may return a collection
Shuffles(q) ==
  IF Len(q) <= 1 THEN {q} ELSE {q, Reverse(q), Rotate(q, 1), Rotate(q, Len(q) - 1)}

Converted(blocks, ids) == [blocks |-> blocks, firstLevelBlockIds |-> ids]

DocOutputs ==
  UNION {{Converted(b, ids) : b \in Shuffles(NaturalBlocks(kinds)),
                              ids \in {TopLevelIds(kinds), <<>>}} :
         kinds \in KindSeqs({"T", "C", "B"}, MaxTop)}

RetryOutputs ==
  {Converted(NaturalBlocks(kinds), TopLevelIds(kinds)) : kinds \in {<<"T">>}}

PairOutputs ==
  {Converted(NaturalBlocks(kinds), TopLevelIds(kinds)) : kinds \in {<<"T", "T">>, <<"T", "C", "T">>}}

\* n blocks, text except for the positions in cellAt
BulkBlocks(n, cellAt) ==
  [i \in 1..n |-> IF i \in cellAt
                  THEN Blk(300 + i, 0, TTableCell, <<>>, <<>>, FALSE, 0)
                  ELSE Blk(300 + i, 0, TText, <<>>, <<>>, FALSE, 300 + i)]

BulkIds(n) == [i \in 1..n |-> 300 + i]

\* sizes at the chunk boundaries, up to two full chunks and a tail
BulkSizes ==
  {1, MAX_BLOCKS_PER_INSERT - 1, MAX_BLOCKS_PER_INSERT, MAX_BLOCKS_PER_INSERT + 1,
   2 * MAX_BLOCKS_PER_INSERT, 2 * MAX_BLOCKS_PER_INSERT + BulkTail}

BulkOutputs ==
  {Converted(BulkBlocks(n, {}), BulkIds(n)) : n \in BulkSizes}
  \cup {Converted(BulkBlocks(n, {i \in 1..n : i % 3 = 0}), BulkIds(n)) : n \in BulkSizes}
  \cup {Converted(BulkBlocks(n, (MAX_BLOCKS_PER_INSERT + 1)..(2 * MAX_BLOCKS_PER_INSERT)), BulkIds(n)) :
          n \in BulkSizes}

\* documents that mix tables with text blocks
TableOutputs ==
  {Converted(NaturalBlocks(kinds), TopLevelIds(kinds)) :
     kinds \in {<<"W">>, <<"T", "W">>, <<"W", "T">>, <<"T", "W", "T">>, <<"W", "W">>,
                <<"E">>, <<"E", "T">>}}

\* documents with no, one and two image blocks
ImageOutputs ==
  {Converted(NaturalBlocks(kinds), TopLevelIds(kinds)) :
     kinds \in {<<"T">>, <<"I">>, <<"I", "I">>, <<"I", "T", "I">>}}

\* two markdowns of different content: "# A" converts to the text blocks 110
\* and 120, "# B" to the text block 210
ConcurrentOutputs(markdown) ==
  IF markdown = "# A"
  THEN {Converted(NaturalBlocks(<<"T", "T">>), TopLevelIds(<<"T", "T">>))}
  ELSE {Converted(<<Blk(210, 0, TText, <<>>, <<>>, FALSE, 210)>>, <<210>>)}

\* an id no block of the collection carries
UnknownId == 999

\* three text blocks in any of the sampled orders, with every list of at most
\* OrderLen ids drawn from their ids and an unknown one
OrderOutputs ==
  LET kinds == <<"T", "T", "T">>
      ids == Range(TopLevelIds(kinds)) \cup {UnknownId}
  IN {Converted(b, order) : b \in Shuffles(NaturalBlocks(kinds)),
                            order \in UNION {[1..m -> ids] : m \in 0..OrderLen}}

\* what docx.document.convert may return for a markdown, by family of run
ConvertOutputs(family, markdown) ==
  IF Trim(markdown) = ""
  THEN {Converted(<<>>, <<>>), Converted(NaturalBlocks(<<"T">>), TopLevelIds(<<"T">>))}
  ELSE CASE family = "doc" -> DocOutputs
         [] family = "retry" -> RetryOutputs
         [] family = "classify" -> RetryOutputs
         [] family = "concurrent" -> ConcurrentOutputs(markdown)
         [] family = "docx" -> {Converted(<<>>, <<>>),
                                Converted(NaturalBlocks(<<"T">>), TopLevelIds(<<"T">>))}
         [] family = "exhaust" -> {Converted(NaturalBlocks(<<"T", "T">>), TopLevelIds(<<"T", "T">>))}
         [] family = "pair" -> PairOutputs
         [] family = "bulk" -> BulkOutputs
         [] family = "order" -> OrderOutputs
         [] family = "table" -> TableOutputs
         [] family = "image" -> ImageOutputs

(***************************************************************************)
(* The remote document store. A document token is a positive number d; the *)
(* blocks the store creates in d get the ids ServerId(d, 1), ...; content  *)
(* below 0 is content that was in the document before the run.             *)
(***************************************************************************)
DocTokens == {1}

ServerId(token, n) == 10000 * token + n

ExistingDoc(token, n) ==
  [root |-> [i \in 1..n |-> Blk(ServerId(token, i), token, TText, <<>>, <<>>, FALSE, 0 - i)],
   kids |-> <<>>,
   nextId |-> n + 1]

\* documentBlock.list: the page block, the root's children, the cells' children
ListItems(doc, token) ==
  <<Blk(token, 0, TPage, <<>>, <<>>, FALSE, 0)>> \o doc.root
  \o Flatten([i \in 1..Len(doc.root) |->
       Flatten([c \in 1..Len(doc.root[i].cells) |-> doc.kids[doc.root[i].cells[c]]])])

\* documentBlockChildren.batchDelete of the root, half-open range [start, end)
RemoteBatchDelete(doc, start, end) ==
  [doc EXCEPT !.root = SubSeq(@, 1, start) \o SubSeq(@, end + 1, Len(@))]

\* the blocks documentBlockChildren.create makes of a payload; a table gets d cells
CreatedBlocks(doc, token, parent, children, d) ==
  [i \in 1..Len(children) |->
     LET id == ServerId(token, doc.nextId + (i - 1) * (d + 1))
         cellIds == IF children[i].block_type = TTable THEN [c \in 1..d |-> id + c] ELSE <<>>
     IN Blk(id, parent, children[i].block_type, cellIds, cellIds, FALSE, children[i].content)]

RemoteCreate(doc, token, parent, created, d) ==
  LET cellIds == UNION {Range(created[i].cells) : i \in 1..Len(created)}
      grown == IF parent \in DOMAIN doc.kids
               THEN [doc.kids EXCEPT ![parent] = @ \o created]
               ELSE doc.kids
  IN [root |-> IF parent = token THEN doc.root \o created ELSE doc.root,
      kids |-> [c \in cellIds |-> <<>>] @@ grown,
      nextId |-> doc.nextId + Len(created) * (d + 1)]

\* Outcomes of documentBlockChildren.create: code, msg, whether the store applied
\* the payload, whether data.children carries the created blocks, and whether
\* the call rejected (threw) instead of returning a response.
ReplyOk == [code |-> 0, msg |-> "success", applied |-> TRUE, echo |-> TRUE, thrown |-> FALSE]

FaultReplies ==
  {[code |-> CodeThrottle, msg |-> "too many requests", applied |-> FALSE, echo |-> FALSE,
     thrown |-> FALSE],
   [code |-> CodeTimeout, msg |-> "request timeout", applied |-> TRUE, echo |-> FALSE,
     thrown |-> FALSE],
   [code |-> CodeInvalidParam, msg |-> "invalid param", applied |-> FALSE, echo |-> FALSE,
     thrown |-> FALSE],
   [code |-> 0, msg |-> "success", applied |-> TRUE, echo |-> FALSE, thrown |-> FALSE],
   [code |-> -1, msg |-> "socket hang up", applied |-> FALSE, echo |-> FALSE,
     thrown |-> TRUE]}

\* the failing create replies of the family "classify": every sampled code
\* with every sampled message; a response with code 0 is a success
ClassifyCodes ==
  {NoCode, 0, CodeThrottle, CodeTooMany, CodeWriteConflict, CodeTimeout, CodeInvalidParam}

ClassifyMessages ==
  SampledMessages \ {"success", "request timeout", "socket hang up"}

ClassifyReplies ==
  {[code |-> c, msg |-> m, applied |-> c = 0, echo |-> c = 0, thrown |-> FALSE] :
     c \in ClassifyCodes, m \in ClassifyMessages}

\* the replies the remote may give to a create call instead of plain success
FaultsOf(family) ==
  CASE family = "classify" -> ClassifyReplies
    [] family = "exhaust" ->
         {r \in FaultReplies : r.thrown \/ r.code \in {CodeThrottle, CodeInvalidParam}}
    [] OTHER -> FaultReplies

(***************************************************************************)
(* The local state of one operation. pc names the remote call (or timer)   *)
(* the operation awaits. wlog and elog are history: the invocations of     *)
(* createChildrenWithRetry and of insertBlocksInBatches so far; tlog is    *)
(* the results insertTableWithCells has returned, ilog the image pairs     *)
(* processImages has attempted, calls the remote calls issued, in order.   *)
(***************************************************************************)
NoOutcome ==
  [status |-> "none", error |-> "", blocks_deleted |-> 0, blocks_added |-> 0,
   images_processed |-> 0, block_ids |-> <<>>, skipped |-> <<>>, warnings |-> <<>>,
   document_id |-> 0]

Idle ==
  [pc |-> "idle", op |-> "none", docToken |-> 0, markdown |-> "",
   deleted |-> 0, listed |-> 0,
   blocks |-> <<>>, firstLevelBlockIds |-> <<>>, orderedBlocks |-> <<>>,
   pos |-> 0, buffer |-> <<>>, flushFor |-> "none",
   inserted |-> <<>>, skipped |-> <<>>, warnings |-> <<>>,
   eBlocks |-> <<>>, eParent |-> 0, eI |-> 0, eCleaned |-> <<>>, eK |-> 0,
   eInserted |-> <<>>, eSkipped |-> <<>>, eCaller |-> "none", engs |-> 0,
   ctx |-> "none", parent |-> 0, payload |-> <<>>, attempt |-> 0, delayMs |-> 0,
   tableBlock |-> <<>>, tableChildren |-> <<>>, dstCells |-> <<>>, cellIdx |-> 0,
   copiedChildren |-> <<>>, allSkipped |-> <<>>,
   sourceCellsWithContent |-> 0, copiedCellCount |-> 0,
   imgUrls |-> <<>>, imgBlocks |-> <<>>, imgIdx |-> 0, processed |-> 0,
   outcome |-> NoOutcome, wlog |-> <<>>, elog |-> <<>>, tlog |-> <<>>, ilog |-> <<>>,
   calls |-> <<>>, docBefore |-> [root |-> <<>>, kids |-> <<>>],
   via |-> "none", createdId |-> 0, failure |-> [call |-> "none", code |-> 0, msg |-> ""],
   impl |-> "service"]

\* throw new Error(msg) reaching the caller of writeDoc / appendDoc
Throw(s, msg) ==
  [s EXCEPT !.pc = "failed", !.outcome = [NoOutcome EXCEPT !.status = "error", !.error = msg]]

\* the non-success responses to a call other than create-children: one with the
\* given message and, in the family "image", one that create-children would retry
FailureReplies(family, msg) ==
  {[code |-> CodeInvalidParam, msg |-> msg]}
  \cup (IF family = "image" THEN {[code |-> CodeThrottle, msg |-> "too many requests"]} ELSE {})

\* mutant: the error carries a message of the client's own
Fail_OwnMessage(s, call, r) ==
  Throw([s EXCEPT !.failure = [call |-> call, code |-> r.code, msg |-> r.msg]], "request failed")

\* if (res.code !== 0) throw new Error(res.msg), on the response r to call
Fail(s, call, r) ==
  Throw([s EXCEPT !.failure = [call |-> call, code |-> r.code, msg |-> r.msg]], r.msg)

\* mutant: createAndWriteDoc reports no document id
WriteReturn_NoDocumentId(s, result) == [s EXCEPT !.pc = "done", !.outcome = result]

\* writeDoc / appendDoc returns result; when createAndWriteDoc called writeDoc,
\* it returns the id of the created document with blocks_added,
\* images_processed and the warning of the write (lines 701-710)
WriteReturn(s, result) ==
  [s EXCEPT !.pc = "done",
            !.outcome = IF s.via = "createAndWriteDoc"
                        THEN [NoOutcome EXCEPT !.status = "ok",
                                               !.document_id = s.createdId,
                                               !.blocks_added = result.blocks_added,
                                               !.images_processed = result.images_processed,
                                               !.skipped = result.skipped,
                                               !.warnings = result.warnings]
                        ELSE result]

\* mutant: the zero-insertion guard is gone
ensureBlocksInserted_NoGuard(markdown, insertedCount) == TRUE

\* ensureBlocksInserted: TRUE when it returns, FALSE when it throws
ensureBlocksInserted(markdown, insertedCount) ==
  IF Len(Trim(markdown)) = 0 THEN TRUE
  ELSE insertedCount > 0

\* a remote call is issued; a and b are the index range of a batchDelete
Call(s, call, a, b) == [s EXCEPT !.calls = Append(@, [call |-> call, a |-> a, b |-> b])]

\* writeDoc / appendDoc after processImages has returned imagesProcessed
Complete(s, imagesProcessed) ==
  LET res == [children |-> s.inserted, skipped |-> Dedupe(s.skipped),
              warnings |-> Dedupe(s.warnings)]
  IN IF s.impl = "service" /\ ~ensureBlocksInserted(s.markdown, Len(res.children))
     THEN Throw(s, "produced zero inserted blocks for non-empty content")
     ELSE WriteReturn(s,
            [status |-> "ok", error |-> "",
             blocks_deleted |-> IF s.op = "write" THEN s.deleted ELSE 0,
             blocks_added |-> Len(res.children),
             images_processed |-> imagesProcessed,
             block_ids |-> IF s.op = "append"
                           THEN [i \in 1..Len(res.children) |-> res.children[i].block_id]
                           ELSE <<>>,
             skipped |-> res.skipped,
             warnings |-> res.warnings,
             document_id |-> 0])

\* the for loop of processImages, from pair imgIdx to its next await
ImageLoop(s) ==
  IF s.imgIdx >= Min(Len(s.imgUrls), Len(s.imgBlocks)) THEN Complete(s, s.processed)
  ELSE [Call(s, "download", 0, 0) EXCEPT
          !.pc = "download",
          !.ilog = Append(@, [i |-> s.imgIdx, url |-> s.imgUrls[s.imgIdx + 1],
                              block |-> s.imgBlocks[s.imgIdx + 1].block_id,
                              download |-> "pending", upload |-> "none", patch |-> "none",
                              counted |-> FALSE])]

\* mutant: every inserted block is taken for an image block
processImages_NoTypeFilter(s) ==
  LET imageUrls == extractImageUrls(s.markdown)
  IN IF Len(imageUrls) = 0 THEN Complete(s, 0)
     ELSE ImageLoop([s EXCEPT !.imgUrls = imageUrls, !.imgBlocks = s.inserted,
                              !.imgIdx = 0, !.processed = 0])

\* processImages up to its first await
processImages(s) ==
  LET imageUrls == extractImageUrls(s.markdown)
  IN IF Len(imageUrls) = 0 THEN Complete(s, 0)
     ELSE ImageLoop([s EXCEPT !.imgUrls = imageUrls,
                              !.imgBlocks = SelectSeq(s.inserted, LAMBDA b : b.block_type = TImage),
                              !.imgIdx = 0, !.processed = 0])

\* pair imgIdx of processImages ends: processed++ at line 533, or the catch
ImageEnd(s, counted) ==
  ImageLoop([s EXCEPT !.processed = IF counted THEN @ + 1 ELSE @, !.imgIdx = @ + 1,
                      !.ilog[Len(s.ilog)].counted = counted])

\* writeDoc / appendDoc after insertBlocksPreservingTables has returned
Finish(s) == processImages(s)

\* createChildrenWithRetry is entered: attempt 1 of operation() is issued
IssueCreate(s, ctx, parent, children) ==
  [Call(s, "create", 0, 0) EXCEPT !.pc = "create", !.ctx = ctx, !.parent = parent, !.payload = children,
            !.attempt = 1,
            !.wlog = Append(@, [eng |-> IF ctx = "table" THEN 0 ELSE s.engs, ctx |-> ctx,
                                parent |-> parent, children |-> children,
                                replies |-> <<>>, waits |-> <<>>, returned |-> FALSE,
                                thrown |-> FALSE, code |-> 0, result |-> <<>>])]

RECURSIVE EngineLoop(_), IBPTLoop(_), CellLoop(_)

\* insertTableWithCells returns to the loop of insertBlocksPreservingTables
TableReturn(s, children, skipped, warnings) ==
  IBPTLoop([s EXCEPT !.inserted = @ \o children, !.skipped = @ \o skipped,
                     !.warnings = @ \o warnings, !.pos = @ + 1,
                     !.tlog = Append(@, [table |-> s.tableBlock[1], children |-> children,
                                         skipped |-> skipped, warnings |-> warnings])])

\* mutant: sanitation strips the source block itself, not a copy of it
StartTable_CleanInPlace(s, block) ==
  LET c == cleanBlocksForInsert(<<block>>)
      s1 == [s EXCEPT !.tableBlock = IF Len(c.cleaned) = 0 THEN <<block>> ELSE c.cleaned,
                      !.allSkipped = c.skipped]
  IN IF Len(c.cleaned) = 0
     THEN TableReturn(s1, <<>>, c.skipped,
            <<[text |-> "Table block was not returned after create", a |-> 0, b |-> 0]>>)
     ELSE IssueCreate(s1, "table", s.docToken, c.cleaned)

\* insertTableWithCells up to its first await: insertBlocks of the table alone
StartTable(s, block) ==
  LET c == cleanBlocksForInsert(<<block>>)
      s1 == [s EXCEPT !.tableBlock = <<block>>, !.allSkipped = c.skipped]
  IN IF Len(c.cleaned) = 0
     THEN TableReturn(s1, <<>>, c.skipped,
            <<[text |-> "Table block was not returned after create", a |-> 0, b |-> 0]>>)
     ELSE IssueCreate(s1, "table", s.docToken, c.cleaned)

\* flushBuffer has returned
AfterFlush(s) ==
  IF s.flushFor = "table" THEN StartTable(s, s.orderedBlocks[s.pos]) ELSE Finish(s)

\* insertBlocksInBatches returns to its caller
EngineReturn(s) ==
  LET res == [children |-> s.eInserted, skipped |-> Dedupe(s.eSkipped)]
      s1 == [s EXCEPT !.elog = Append(@, [eng |-> s.engs, parent |-> s.eParent,
                                          blocks |-> s.eBlocks, children |-> res.children,
                                          skipped |-> res.skipped])]
  IN IF s.eCaller = "flush"
     THEN AfterFlush([s1 EXCEPT !.inserted = @ \o res.children,
                                !.skipped = @ \o res.skipped, !.buffer = <<>>])
     ELSE CellLoop([s1 EXCEPT !.copiedChildren = @ \o res.children,
                              !.allSkipped = @ \o res.skipped,
                              !.copiedCellCount = IF Len(res.children) > 0 THEN @ + 1 ELSE @,
                              !.cellIdx = @ + 1])

\* mutant: all the remaining blocks go out in one call
EngineLoop_NoChunking(s) ==
  IF s.eI >= Len(s.eBlocks) THEN EngineReturn(s)
  ELSE LET c == cleanBlocksForInsert(Slice(s.eBlocks, s.eI, Len(s.eBlocks)))
           s1 == [s EXCEPT !.eSkipped = @ \o c.skipped, !.eCleaned = c.cleaned, !.eK = 0]
       IN IF Len(c.cleaned) = 0
          THEN EngineLoop([s1 EXCEPT !.eI = Len(s.eBlocks)])
          ELSE IssueCreate(s1, "batch", s.eParent, c.cleaned)

\* the for loop of insertBlocksInBatches, from chunk offset eI to its next await
EngineLoop(s) ==
  IF s.eI >= Len(s.eBlocks) THEN EngineReturn(s)
  ELSE LET batch == Slice(s.eBlocks, s.eI, s.eI + MAX_BLOCKS_PER_INSERT)
           c == cleanBlocksForInsert(batch)
           s1 == [s EXCEPT !.eSkipped = @ \o c.skipped, !.eCleaned = c.cleaned, !.eK = 0]
       IN IF Len(c.cleaned) = 0
          THEN EngineLoop([s1 EXCEPT !.eI = @ + MAX_BLOCKS_PER_INSERT])
          ELSE IssueCreate(s1, "batch", s.eParent, c.cleaned)

StartEngine(s, blocks, parent, caller) ==
  EngineLoop([s EXCEPT !.eBlocks = blocks, !.eParent = parent, !.eI = 0, !.eCleaned = <<>>,
                       !.eK = 0, !.eInserted = <<>>, !.eSkipped = <<>>, !.eCaller = caller,
                       !.engs = @ + 1])

\* the content blocks of source cell srcCellId (lines 304-314)
SourceCellBlocks(blockMap, srcCellId) ==
  IF srcCellId \notin DOMAIN blockMap THEN <<>>
  ELSE LET srcCell == blockMap[srcCellId]
           srcChildBlocks == Resolve(blockMap, srcCell.children)
       IN IF Len(srcChildBlocks) = 0 /\ srcCell.content # 0
          THEN <<Blk(0, 0, TText, <<>>, <<>>, FALSE, srcCell.content)>>
          ELSE srcChildBlocks

\* mutant: a cell count mismatch is not reported
TableWarnings_NoMismatch(srcCount, dstCount, withContent, copied) ==
  IF withContent > 0 /\ copied < withContent
  THEN <<[text |-> "Copied table cell content for a/b non-empty cells",
          a |-> copied, b |-> withContent]>>
  ELSE <<>>

\* the warnings insertTableWithCells adds after its cell loop (lines 325-334)
TableWarnings(srcCount, dstCount, withContent, copied) ==
  (IF srcCount # dstCount
   THEN <<[text |-> "Table cell count mismatch after create", a |-> srcCount, b |-> dstCount]>>
   ELSE <<>>)
  \o (IF withContent > 0 /\ copied < withContent
      THEN <<[text |-> "Copied table cell content for a/b non-empty cells",
              a |-> copied, b |-> withContent]>>
      ELSE <<>>)

\* mutant: a created table without cells is handed to the cell loop
AfterTableInsert_NoCellCheck(s, children) ==
  LET srcCells == s.tableBlock[1].cells
      dstCells == IF Len(children) > 0 THEN children[1].cells ELSE <<>>
  IN IF Len(children) = 0 \/ children[1].block_type # TTable
     THEN TableReturn(s, children, s.allSkipped,
            <<[text |-> "Table block was not returned after create", a |-> 0, b |-> 0]>>)
     ELSE IF Len(srcCells) = 0 THEN TableReturn(s, children, s.allSkipped, <<>>)
     ELSE CellLoop([s EXCEPT !.tableChildren = children, !.dstCells = dstCells,
                             !.cellIdx = 0, !.copiedChildren = <<>>,
                             !.sourceCellsWithContent = 0, !.copiedCellCount = 0])

\* mutant: every cell's content goes under the first created cell
CellLoop_FirstCellOnly(s) ==
  LET srcCells == s.tableBlock[1].cells
      cellCount == Min(Len(srcCells), Len(s.dstCells))
  IN IF s.cellIdx >= cellCount
     THEN TableReturn(s, s.tableChildren \o s.copiedChildren, Dedupe(s.allSkipped),
            TableWarnings(Len(srcCells), Len(s.dstCells),
                          s.sourceCellsWithContent, s.copiedCellCount))
     ELSE LET srcChildBlocks ==
                SourceCellBlocks(buildBlockMap(s.blocks), srcCells[s.cellIdx + 1])
          IN IF Len(srcChildBlocks) = 0
             THEN CellLoop([s EXCEPT !.cellIdx = @ + 1])
             ELSE StartEngine([s EXCEPT !.sourceCellsWithContent = @ + 1],
                              srcChildBlocks, s.dstCells[1], "cell")

\* the cell loop of insertTableWithCells, from cell cellIdx to its next await
CellLoop(s) ==
  LET srcCells == s.tableBlock[1].cells
      cellCount == Min(Len(srcCells), Len(s.dstCells))
  IN IF s.cellIdx >= cellCount
     THEN TableReturn(s, s.tableChildren \o s.copiedChildren, Dedupe(s.allSkipped),
            TableWarnings(Len(srcCells), Len(s.dstCells),
                          s.sourceCellsWithContent, s.copiedCellCount))
     ELSE LET srcChildBlocks ==
                SourceCellBlocks(buildBlockMap(s.blocks), srcCells[s.cellIdx + 1])
          IN IF Len(srcChildBlocks) = 0
             THEN CellLoop([s EXCEPT !.cellIdx = @ + 1])
             ELSE StartEngine([s EXCEPT !.sourceCellsWithContent = @ + 1],
                              srcChildBlocks, s.dstCells[s.cellIdx + 1], "cell")

\* insertTableWithCells after insertBlocks has returned children (lines 270-300)
AfterTableInsert(s, children) ==
  LET srcCells == s.tableBlock[1].cells
      dstCells == IF Len(children) > 0 THEN children[1].cells ELSE <<>>
  IN IF Len(children) = 0 \/ children[1].block_type # TTable
     THEN TableReturn(s, children, s.allSkipped,
            <<[text |-> "Table block was not returned after create", a |-> 0, b |-> 0]>>)
     ELSE IF Len(srcCells) = 0 THEN TableReturn(s, children, s.allSkipped, <<>>)
     ELSE IF Len(dstCells) = 0
     THEN TableReturn(s, children, s.allSkipped,
            <<[text |-> "Table created but API did not return generated cells", a |-> 0, b |-> 0]>>)
     ELSE CellLoop([s EXCEPT !.tableChildren = children, !.dstCells = dstCells,
                             !.cellIdx = 0, !.copiedChildren = <<>>,
                             !.sourceCellsWithContent = 0, !.copiedCellCount = 0])

\* mutant: a table does not flush the buffer, which goes out at the end
IBPTLoop_NoFlush(s) ==
  LET n == Len(s.orderedBlocks)
      tables == {i \in s.pos..n : s.orderedBlocks[i].block_type = TTable}
      stop == IF tables = {} THEN n + 1 ELSE CHOOSE i \in tables : \A j \in tables : i <= j
      s1 == [s EXCEPT !.buffer = @ \o SubSeq(s.orderedBlocks, s.pos, stop - 1), !.pos = stop]
  IN IF stop > n
     THEN IF Len(s1.buffer) = 0 THEN Finish(s1)
          ELSE StartEngine([s1 EXCEPT !.flushFor = "end"], s1.buffer, s.docToken, "flush")
     ELSE StartTable(s1, s.orderedBlocks[stop])

\* the for loop of insertBlocksPreservingTables, from block pos to its next await:
\* the blocks up to the next table are pushed to the buffer, a table flushes it
IBPTLoop(s) ==
  LET n == Len(s.orderedBlocks)
      tables == {i \in s.pos..n : s.orderedBlocks[i].block_type = TTable}
      stop == IF tables = {} THEN n + 1 ELSE CHOOSE i \in tables : \A j \in tables : i <= j
      s1 == [s EXCEPT !.buffer = @ \o SubSeq(s.orderedBlocks, s.pos, stop - 1), !.pos = stop]
  IN IF stop > n
     THEN IF Len(s1.buffer) = 0 THEN Finish(s1)
          ELSE StartEngine([s1 EXCEPT !.flushFor = "end"], s1.buffer, s.docToken, "flush")
     ELSE IF Len(s1.buffer) = 0 THEN StartTable(s1, s.orderedBlocks[stop])
          ELSE StartEngine([s1 EXCEPT !.flushFor = "table"], s1.buffer, s.docToken, "flush")

\* mutant: an empty conversion fails a write whatever the markdown
AfterConvert_EmptyIsError(s, blocks, firstLevelBlockIds) ==
  IF Len(blocks) = 0
  THEN IF s.op = "append" THEN Throw(s, "Content is empty")
       ELSE Throw(s, "Markdown conversion returned no blocks for non-empty content.")
  ELSE IBPTLoop([s EXCEPT !.blocks = blocks, !.firstLevelBlockIds = firstLevelBlockIds,
                          !.orderedBlocks = reorderBlocks(blocks, firstLevelBlockIds),
                          !.pos = 1, !.buffer = <<>>, !.inserted = <<>>,
                          !.skipped = <<>>, !.warnings = <<>>])

\* mutant: an empty conversion is inserted like any other
AfterConvert_NoEmptyCheck(s, blocks, firstLevelBlockIds) ==
  IBPTLoop([s EXCEPT !.blocks = blocks, !.firstLevelBlockIds = firstLevelBlockIds,
                     !.orderedBlocks = reorderBlocks(blocks, firstLevelBlockIds),
                     !.pos = 1, !.buffer = <<>>, !.inserted = <<>>,
                     !.skipped = <<>>, !.warnings = <<>>])

\* writeDoc / appendDoc once convertMarkdown has returned
AfterConvert(s, blocks, firstLevelBlockIds) ==
  IF Len(blocks) = 0
  THEN IF s.op = "append" THEN Throw(s, "Content is empty")
       ELSE IF s.impl = "service" /\ Len(Trim(s.markdown)) > 0
       THEN Throw(s, "Markdown conversion returned no blocks for non-empty content.")
       ELSE WriteReturn(s, [NoOutcome EXCEPT !.status = "ok", !.blocks_deleted = s.deleted])
  ELSE IBPTLoop([s EXCEPT !.blocks = blocks, !.firstLevelBlockIds = firstLevelBlockIds,
                          !.orderedBlocks = reorderBlocks(blocks, firstLevelBlockIds),
                          !.pos = 1, !.buffer = <<>>, !.inserted = <<>>,
                          !.skipped = <<>>, !.warnings = <<>>])

\* mutant: a failed batch is dropped, no block of it is tried alone
NextSingle_NoFallback(s) == EngineLoop([s EXCEPT !.eI = @ + MAX_BLOCKS_PER_INSERT])

\* the per-block fallback of insertBlocksInBatches issues its next single create
NextSingle(s) ==
  IF s.eK < Len(s.eCleaned)
  THEN IssueCreate([s EXCEPT !.eK = @ + 1], "single", s.eParent, <<s.eCleaned[s.eK + 1]>>)
  ELSE EngineLoop([s EXCEPT !.eI = @ + MAX_BLOCKS_PER_INSERT])

\* createChildrenWithRetry has returned res to its caller
AfterCreate(s, res) ==
  CASE s.ctx = "batch" ->
         IF res.code # 0 THEN NextSingle(s)
         ELSE EngineLoop([s EXCEPT !.eInserted = @ \o res.children,
                                   !.eI = @ + MAX_BLOCKS_PER_INSERT])
    [] s.ctx = "single" ->
         NextSingle(IF res.code = 0 THEN [s EXCEPT !.eInserted = @ \o res.children] ELSE s)
    [] s.ctx = "table" ->
         IF res.code # 0 THEN Throw(s, res.msg) ELSE AfterTableInsert(s, res.children)

\* mutant: a rejected create call ends the operation wherever it was issued
AfterCreateThrow_AlwaysAbort(s, msg) == Throw(s, msg)

\* createChildrenWithRetry has thrown: operation() rejected and executeWithBackoff
\* let the error pass. The per-block fallback catches it (lines 385-387), the
\* batch path rethrows it (lines 392-395), insertBlocks does not catch it.
AfterCreateThrow(s, msg) ==
  IF s.ctx = "single" THEN NextSingle(s) ELSE Throw(s, msg)

\* mutant: the last attempt is never made
executeWithBackoff_GiveUpEarly(res, attempt) ==
  IF res.code = 0 THEN "return"
  ELSE IF ~isRetryableCreateError(res.code, res.msg) \/ attempt = maxAttempts - 1 THEN "return"
  ELSE "retry"

\* mutant: a retryable failure is waited on and retried whatever the attempt
executeWithBackoff_RetryAfterLast(res, attempt) ==
  IF res.code = 0 THEN "return"
  ELSE IF ~isRetryableCreateError(res.code, res.msg) THEN "return"
  ELSE "retry"

\* executeWithBackoff after operation() has returned res on the given attempt
\* (lines 212-213): "return" the result, or "retry" after a backoff
executeWithBackoff(res, attempt) ==
  IF res.code = 0 THEN "return"
  ELSE IF ~isRetryableCreateError(res.code, res.msg) \/ attempt = maxAttempts THEN "return"
  ELSE "retry"

LogReply(s, reply) ==
  [s EXCEPT !.wlog[Len(s.wlog)].replies =
              Append(@, [code |-> reply.code, msg |-> reply.msg, applied |-> reply.applied,
                         thrown |-> reply.thrown])]

LogReturn(s, res) ==
  [s EXCEPT !.wlog[Len(s.wlog)].returned = TRUE, !.wlog[Len(s.wlog)].code = res.code,
            !.wlog[Len(s.wlog)].result = res.children]

LogThrow(s) == [s EXCEPT !.wlog[Len(s.wlog)].thrown = TRUE]

LogWait(s, ms) == [s EXCEPT !.wlog[Len(s.wlog)].waits = Append(@, ms)]

\* the cells the table of a skeleton payload asks for: those of the source table
SourceCellCount(s) ==
  IF s.ctx = "table" THEN Len(s.tableBlock[1].cells) ELSE 0

\* the cell counts the store may give a created table that asks for src cells
DstCellCounts(family, src) ==
  IF src = 0 THEN {0}
  ELSE {src, 0, src - 1} \cup (IF family = "table" THEN {src + 1} ELSE {})

(***************************************************************************)
(* Actions                                                                 *)
(***************************************************************************)
Procs == DOMAIN ps

\* the content of a remote document: the children of its root and of its blocks
DocContent(doc) == [root |-> doc.root, kids |-> doc.kids]

\* mutant: an operation begins only when no other one is under way
Begin_Exclusive(p) ==
  /\ ps[p].pc = "idle"
  /\ \A q \in Procs : ps[q].pc \in {"idle", "done", "failed"}
  /\ \E op \in env.ops, markdown \in env.markdowns, token \in DOMAIN docs :
       ps' = [ps EXCEPT ![p] =
                [Call(@, IF op = "write" THEN "list" ELSE "convert", 0, 0)
                   EXCEPT !.op = op, !.markdown = markdown, !.docToken = token,
                          !.docBefore = DocContent(docs[token]),
                          !.pc = IF op = "write" THEN "list" ELSE "convert"]]
  /\ UNCHANGED <<docs, env>>

\* mutant: writeDoc converts without clearing the document first
Begin_NoClear(p) ==
  /\ ps[p].pc = "idle"
  /\ \E op \in env.ops, markdown \in env.markdowns, token \in DocTokens :
       ps' = [ps EXCEPT ![p] =
                [Call(@, "convert", 0, 0)
                   EXCEPT !.op = op, !.markdown = markdown, !.docToken = token,
                          !.docBefore = DocContent(docs[token]), !.pc = "convert"]]
  /\ UNCHANGED <<docs, env>>

\* writeDoc / appendDoc is called and issues its first remote call
Begin(p) ==
  /\ ps[p].pc = "idle"
  /\ \E op \in env.ops, markdown \in env.markdowns, token \in DOMAIN docs :
       ps' = [ps EXCEPT ![p] =
                [Call(@, IF op = "write" THEN "list" ELSE "convert", 0, 0)
                   EXCEPT !.op = op, !.markdown = markdown, !.docToken = token,
                          !.docBefore = DocContent(docs[token]),
                          !.pc = IF op = "write" THEN "list" ELSE "convert"]]
  /\ UNCHANGED <<docs, env>>

\* writeDoc of docx.ts is called: the same calls as writeDoc of
\* doc-write-service.ts, without the two guards against an empty result
\* (docx.ts lines 537-540 and 552-553)
DocxWriteBegin(p) ==
  /\ ps[p].pc = "idle"
  /\ "write" \in env.ops
  /\ \E markdown \in env.markdowns, token \in DOMAIN docs :
       ps' = [ps EXCEPT ![p] =
                [Call(@, "list", 0, 0)
                   EXCEPT !.op = "write", !.impl = "docx", !.markdown = markdown,
                          !.docToken = token, !.docBefore = DocContent(docs[token]),
                          !.pc = "list"]]
  /\ UNCHANGED <<docs, env>>

\* mutant: the range ends one child early
DeleteRange_OffByOne(childCount) == [start_index |-> 0, end_index |-> childCount - 1]

\* the range clearDocumentContent deletes (line 467)
DeleteRange(childCount) == [start_index |-> 0, end_index |-> childCount]

\* clearDocumentContent: documentBlock.list returns
ListReturn(p) ==
  LET s == ps[p] IN
  /\ s.pc = "list"
  /\ \E res \in {[code |-> 0, msg |-> "success"]} \cup FailureReplies(env.family, "list failed") :
       IF res.code # 0 THEN ps' = [ps EXCEPT ![p] = Fail(s, "list", res)]
       ELSE LET items == ListItems(docs[s.docToken], s.docToken)
                childIds == SelectSeq(items, LAMBDA b :
                              b.parent_id = s.docToken /\ b.block_type # TPage)
            IN ps' = [ps EXCEPT ![p] =
                        IF Len(childIds) > 0
                        THEN [Call(s, "batchDelete", DeleteRange(Len(childIds)).start_index,
                                   DeleteRange(Len(childIds)).end_index)
                                EXCEPT !.listed = Len(childIds), !.pc = "delete"]
                        ELSE [Call(s, "convert", 0, 0)
                                EXCEPT !.listed = 0, !.deleted = 0, !.pc = "convert"]]
  /\ UNCHANGED <<docs, env>>

\* clearDocumentContent: documentBlockChildren.batchDelete returns
DeleteReturn(p) ==
  LET s == ps[p] IN
  /\ s.pc = "delete"
  /\ \E res \in {[code |-> 0, msg |-> "success"]} \cup FailureReplies(env.family, "delete failed") :
       IF res.code # 0
       THEN /\ ps' = [ps EXCEPT ![p] = Fail(s, "batchDelete", res)]
            /\ UNCHANGED docs
       ELSE /\ DeleteRange(s.listed).end_index <= Len(docs[s.docToken].root)
            /\ docs' = [docs EXCEPT ![s.docToken] = RemoteBatchDelete(@, DeleteRange(s.listed).start_index,
                                                DeleteRange(s.listed).end_index)]
            /\ ps' = [ps EXCEPT ![p] = [Call(s, "convert", 0, 0)
                                          EXCEPT !.deleted = s.listed, !.pc = "convert"]]
  /\ UNCHANGED env

\* mutant: a failed convert is issued once more
ConvertReturn_Retry(p) ==
  LET s == ps[p] IN
  /\ s.pc = "convert"
  /\ \/ \E res \in FailureReplies(env.family, "convert failed") :
          ps' = [ps EXCEPT ![p] = IF Len(s.calls) < 4 THEN Call(s, "convert", 0, 0)
                                  ELSE Fail(s, "convert", res)]
     \/ \E out \in ConvertOutputs(env.family, s.markdown) :
          ps' = [ps EXCEPT ![p] = AfterConvert(s, out.blocks, out.firstLevelBlockIds)]
  /\ UNCHANGED <<docs, env>>

\* convertMarkdown: docx.document.convert returns
ConvertReturn(p) ==
  LET s == ps[p] IN
  /\ s.pc = "convert"
  /\ \/ \E res \in FailureReplies(env.family, "convert failed") :
          ps' = [ps EXCEPT ![p] = Fail(s, "convert", res)]
     \/ \E out \in ConvertOutputs(env.family, s.markdown) :
          ps' = [ps EXCEPT ![p] = AfterConvert(s, out.blocks, out.firstLevelBlockIds)]
  /\ UNCHANGED <<docs, env>>

\* one attempt of documentBlockChildren.create returns inside executeWithBackoff
CreateReturn(p) ==
  LET s == ps[p]
      doc == docs[s.docToken]
      src == SourceCellCount(s)
  IN
  /\ s.pc = "create"
  /\ \E reply \in {ReplyOk} \cup (IF env.faults > 0 THEN FaultsOf(env.family) ELSE {}),
        d \in IF env.faults > 0 THEN DstCellCounts(env.family, src) ELSE {src} :
       LET cost == IF reply # ReplyOk \/ d # src THEN 1 ELSE 0
           created == CreatedBlocks(doc, s.docToken, s.parent, s.payload, d)
           res == [code |-> reply.code, msg |-> reply.msg,
                   children |-> IF reply.code = 0 /\ reply.echo THEN created ELSE <<>>]
           s1 == LogReply(s, reply)
       IN /\ cost <= env.faults
          /\ (reply # ReplyOk => d = src)
          /\ env' = [env EXCEPT !.faults = @ - cost]
          /\ docs' = IF reply.applied
                     THEN [docs EXCEPT ![s.docToken] =
                             RemoteCreate(doc, s.docToken, s.parent, created, d)]
                     ELSE docs
          /\ IF reply.thrown
             THEN ps' = [ps EXCEPT ![p] = AfterCreateThrow(LogThrow(s1), reply.msg)]
             ELSE IF executeWithBackoff(res, s.attempt) = "return"
             THEN ps' = [ps EXCEPT ![p] = AfterCreate(LogReturn(s1, res), res)]
             ELSE \E k \in env.random :
                    LET delayMs == computeBackoffDelayMs(s.attempt, k)
                    IN ps' = [ps EXCEPT ![p] =
                                [LogWait(s1, delayMs) EXCEPT !.pc = "sleep", !.delayMs = delayMs]]

\* mutant: the attempt counter is one variable of the module
SleepReturn_SharedAttempt(p) ==
  LET s == ps[p] IN
  /\ s.pc = "sleep"
  /\ ps' = [q \in Procs |->
              IF q = p THEN [Call(s, "create", 0, 0) EXCEPT !.attempt = @ + 1, !.pc = "create"]
              ELSE [ps[q] EXCEPT !.attempt = @ + 1]]
  /\ UNCHANGED <<docs, env>>

\* mutant: the next attempt is issued twice, the first one not awaited
SleepReturn_DoubleIssue(p) ==
  LET s == ps[p] IN
  /\ s.pc = "sleep"
  /\ ps' = [ps EXCEPT ![p] = [Call(Call(s, "create", 0, 0), "create", 0, 0)
                                EXCEPT !.attempt = @ + 1, !.pc = "create"]]
  /\ UNCHANGED <<docs, env>>

\* sleep(delayMs) ends: the loop of executeWithBackoff issues the next attempt
SleepReturn(p) ==
  LET s == ps[p] IN
  /\ s.pc = "sleep"
  /\ ps' = [ps EXCEPT ![p] = [Call(s, "create", 0, 0)
                                EXCEPT !.attempt = @ + 1, !.pc = "create"]]
  /\ UNCHANGED <<docs, env>>

\* createAndWriteDoc is called: createDoc issues docx.document.create
CreateAndWriteBegin(p) ==
  /\ ps[p].pc = "idle"
  /\ \E markdown \in env.markdowns :
       ps' = [ps EXCEPT ![p] =
                [Call(@, "createDocument", 0, 0)
                   EXCEPT !.op = "write", !.via = "createAndWriteDoc",
                          !.markdown = markdown, !.pc = "createDoc"]]
  /\ UNCHANGED <<docs, env>>

\* the token the store gives the next document it creates
NewToken(store) == Max(CHOOSE t \in DOMAIN store : \A u \in DOMAIN store : u <= t, 0) + 1

\* createDoc: docx.document.create returns a failure code (nothing is created),
\* the created document, or a success response that carries no document_id;
\* createAndWriteDoc then throws or calls writeDoc on the returned id
CreateDocReturn(p) ==
  LET s == ps[p]
      token == NewToken(docs)
      made == docs @@ (token :> ExistingDoc(token, 0))
  IN
  /\ s.pc = "createDoc"
  /\ \/ /\ \E res \in FailureReplies(env.family, "create failed") :
             ps' = [ps EXCEPT ![p] = Fail(s, "createDocument", res)]
        /\ UNCHANGED docs
     \/ /\ ps' = [ps EXCEPT ![p] = Throw(s, "Document created but no document_id returned")]
        /\ docs' \in {docs, made}
     \/ /\ ps' = [ps EXCEPT ![p] =
                    [Call(s, "list", 0, 0)
                       EXCEPT !.createdId = token, !.docToken = token,
                              !.docBefore = DocContent(made[token]), !.pc = "list"]]
        /\ docs' = made
  /\ UNCHANGED env

\* the outcomes of an image call that fail the pair, while faults are left
ImageFailures(kinds) == IF env.faults > 0 THEN kinds ELSE {}

LogImage(s, stage, r) ==
  CASE stage = "download" -> [s EXCEPT !.ilog[Len(s.ilog)].download = r]
    [] stage = "upload" -> [s EXCEPT !.ilog[Len(s.ilog)].upload = r]
    [] stage = "patch" -> [s EXCEPT !.ilog[Len(s.ilog)].patch = r]

\* processImages: downloadImage returns the buffer, or throws (the media is
\* larger than maxBytes, or the fetch failed)
DownloadReturn(p) ==
  LET s == ps[p] IN
  /\ s.pc = "download"
  /\ \E r \in {"ok"} \cup ImageFailures({"too large", "error"}) :
       /\ env' = [env EXCEPT !.faults = IF r = "ok" THEN @ ELSE @ - 1]
       /\ ps' = [ps EXCEPT ![p] =
                   IF r = "ok"
                   THEN [Call(LogImage(s, "download", r), "upload", 0, 0) EXCEPT !.pc = "upload"]
                   ELSE ImageEnd(LogImage(s, "download", r), FALSE)]
  /\ UNCHANGED docs

\* processImages: uploadImageToDocx returns the file token, or throws (the
\* response carries no file_token, or the upload failed)
UploadReturn(p) ==
  LET s == ps[p] IN
  /\ s.pc = "upload"
  /\ \E r \in {"ok"} \cup ImageFailures({"no file_token", "error"}) :
       /\ env' = [env EXCEPT !.faults = IF r = "ok" THEN @ ELSE @ - 1]
       /\ ps' = [ps EXCEPT ![p] =
                   IF r = "ok"
                   THEN [Call(LogImage(s, "upload", r), "patch", 0, 0) EXCEPT !.pc = "patch"]
                   ELSE ImageEnd(LogImage(s, "upload", r), FALSE)]
  /\ UNCHANGED docs

\* processImages: documentBlock.patch returns a response, whose code is not
\* read (lines 526-533), or throws
PatchReturn(p) ==
  LET s == ps[p] IN
  /\ s.pc = "patch"
  /\ \E r \in {"ok"} \cup ImageFailures({"failure code", "error"}) :
       /\ env' = [env EXCEPT !.faults = IF r = "ok" THEN @ ELSE @ - 1]
       /\ ps' = [ps EXCEPT ![p] = ImageEnd(LogImage(s, "patch", r), r # "error")]
  /\ UNCHANGED docs

Next ==
  \/ \E p \in Procs : Begin(p)
  \/ \E p \in Procs : ListReturn(p)
  \/ \E p \in Procs : DeleteReturn(p)
  \/ \E p \in Procs : ConvertReturn(p)
  \/ \E p \in Procs : CreateReturn(p)
  \/ \E p \in Procs : SleepReturn(p)

InitDocs == {[token \in DocTokens |-> ExistingDoc(token, n)] : n \in 0..MaxExisting}

Init ==
  /\ ps = [p \in {1} |-> Idle]
  /\ docs \in InitDocs
  /\ env = [family |-> "doc", faults |-> MaxFaults, random |-> {RandomSteps \div 2},
            ops |-> {"write", "append"}, markdowns |-> Markdowns]

Spec == Init /\ [][Next]_vars

\* appendDoc alone: the insert engine and the retry wrapper
NextAppend ==
  \/ \E p \in Procs : Begin(p)
  \/ \E p \in Procs : ConvertReturn(p)
  \/ \E p \in Procs : CreateReturn(p)
  \/ \E p \in Procs : SleepReturn(p)

\* appendDoc of one text block under many failing create replies
InitRetry ==
  /\ ps = [p \in {1} |-> Idle]
  /\ docs = [token \in DocTokens |-> ExistingDoc(token, 0)]
  /\ env = [family |-> "retry", faults |-> RetryFaults, random |-> 0..RandomSteps,
            ops |-> {"append"}, markdowns |-> {"# Title"}]

SpecRetry == InitRetry /\ [][NextAppend]_vars

\* appendDoc of one text block under every sampled code and message
InitClassify ==
  /\ ps = [p \in {1} |-> Idle]
  /\ docs = [token \in DocTokens |-> ExistingDoc(token, 0)]
  /\ env = [family |-> "classify", faults |-> ClassifyFaults, random |-> {RandomSteps \div 2},
            ops |-> {"append"}, markdowns |-> {"# Title"}]

SpecClassify == InitClassify /\ [][NextAppend]_vars

\* appendDoc of long flat documents, and of short ones under more failing replies
InitEngine ==
  /\ ps = [p \in {1} |-> Idle]
  /\ docs = [token \in DocTokens |-> ExistingDoc(token, 0)]
  /\ env \in {[family |-> "bulk", faults |-> BulkFaults, random |-> {RandomSteps \div 2},
               ops |-> {"append"}, markdowns |-> {"# Title"}],
              [family |-> "pair", faults |-> PairFaults, random |-> {RandomSteps \div 2},
               ops |-> {"append"}, markdowns |-> {"# Title"}]}

SpecEngine == InitEngine /\ [][NextAppend]_vars

\* appendDoc of two text blocks under as many failing create replies as the
\* retry wrapper can take; every remote call and every timer eventually returns
InitExhaust ==
  /\ ps = [p \in {1} |-> Idle]
  /\ docs = [token \in DocTokens |-> ExistingDoc(token, 0)]
  /\ env = [family |-> "exhaust", faults |-> ExhaustFaults, random |-> {RandomSteps \div 2},
            ops |-> {"append"}, markdowns |-> {"# Title"}]

SpecExhaust == InitExhaust /\ [][NextAppend]_vars /\ WF_vars(NextAppend)

\* appendDoc of a collection under every sampled first_level_block_ids
InitOrder ==
  /\ ps = [p \in {1} |-> Idle]
  /\ docs = [token \in DocTokens |-> ExistingDoc(token, 0)]
  /\ env = [family |-> "order", faults |-> MaxFaults, random |-> {RandomSteps \div 2},
            ops |-> {"append"}, markdowns |-> {"# Title"}]

SpecOrder == InitOrder /\ [][NextAppend]_vars

\* appendDoc of documents that mix tables and text
InitTable ==
  /\ ps = [p \in {1} |-> Idle]
  /\ docs = [token \in DocTokens |-> ExistingDoc(token, 0)]
  /\ env = [family |-> "table", faults |-> TableFaults, random |-> {RandomSteps \div 2},
            ops |-> {"append"}, markdowns |-> {"# Title"}]

SpecTable == InitTable /\ [][NextAppend]_vars

\* writeDoc / appendDoc with the image calls of processImages
NextImage ==
  \/ \E p \in Procs : Begin(p)
  \/ \E p \in Procs : ListReturn(p)
  \/ \E p \in Procs : DeleteReturn(p)
  \/ \E p \in Procs : ConvertReturn(p)
  \/ \E p \in Procs : CreateReturn(p)
  \/ \E p \in Procs : SleepReturn(p)
  \/ \E p \in Procs : DownloadReturn(p)
  \/ \E p \in Procs : UploadReturn(p)
  \/ \E p \in Procs : PatchReturn(p)

\* writeDoc / appendDoc of markdown with image references
InitImage ==
  /\ ps = [p \in {1} |-> Idle]
  /\ docs \in InitDocs
  /\ env = [family |-> "image", faults |-> ImageFaults, random |-> {RandomSteps \div 2},
            ops |-> {"write", "append"}, markdowns |-> ImageMarkdowns \cup {"# Title"}]

SpecImage == InitImage /\ [][NextImage]_vars

\* two operations, each a writeDoc or an appendDoc on one of two documents,
\* interleaved at their awaits
InitConcurrent ==
  /\ ps = [p \in {1, 2} |-> Idle]
  /\ docs = [token \in {1, 2} |-> ExistingDoc(token, 1)]
  /\ env = [family |-> "concurrent", faults |-> ConcurrentFaults, random |-> {RandomSteps \div 2},
            ops |-> {"write", "append"}, markdowns |-> {"# A", "# B"}]

SpecConcurrent == InitConcurrent /\ [][Next]_vars

\* writeDoc of doc-write-service.ts and writeDoc of docx.ts, each called on
\* one of two documents of the same content
NextDocx ==
  \/ \E p \in Procs : Begin(p)
  \/ \E p \in Procs : DocxWriteBegin(p)
  \/ \E p \in Procs : ListReturn(p)
  \/ \E p \in Procs : DeleteReturn(p)
  \/ \E p \in Procs : ConvertReturn(p)
  \/ \E p \in Procs : CreateReturn(p)
  \/ \E p \in Procs : SleepReturn(p)

InitDocx ==
  /\ ps = [p \in {1, 2} |-> Idle]
  /\ docs = [token \in {1, 2} |-> ExistingDoc(token, 1)]
  /\ env = [family |-> "docx", faults |-> DocxFaults, random |-> {RandomSteps \div 2},
            ops |-> {"write"}, markdowns |-> {"# Title"}]

SpecDocx == InitDocx /\ [][NextDocx]_vars

\* writeDoc, appendDoc and createAndWriteDoc
NextCreate ==
  \/ \E p \in Procs : Begin(p)
  \/ \E p \in Procs : CreateAndWriteBegin(p)
  \/ \E p \in Procs : CreateDocReturn(p)
  \/ \E p \in Procs : ListReturn(p)
  \/ \E p \in Procs : DeleteReturn(p)
  \/ \E p \in Procs : ConvertReturn(p)
  \/ \E p \in Procs : CreateReturn(p)
  \/ \E p \in Procs : SleepReturn(p)
  \/ \E p \in Procs : DownloadReturn(p)
  \/ \E p \in Procs : UploadReturn(p)
  \/ \E p \in Procs : PatchReturn(p)

\* one operation of the three on a store of one document
InitCreate ==
  /\ ps = [p \in {1} |-> Idle]
  /\ docs \in InitDocs
  /\ env = [family |-> "image", faults |-> CreateFaults, random |-> {RandomSteps \div 2},
            ops |-> {"write", "append"}, markdowns |-> ImageMarkdowns \cup {"", "# Title"}]

SpecCreate == InitCreate /\ [][NextCreate]_vars

(***************************************************************************)
(* Properties                                                              *)
(***************************************************************************)
Contents(blocks) == [i \in 1..Len(blocks) |-> blocks[i].content]

\* every create reply so far reported success
AllCreatesSucceeded(s) ==
  \A i \in 1..Len(s.wlog) : \A j \in 1..Len(s.wlog[i].replies) : s.wlog[i].replies[j].code = 0

\* every create reply so far reported success and carried the created blocks
AllCreatesEchoed(s) ==
  \A i \in 1..Len(s.wlog) :
    /\ Len(s.wlog[i].replies) <= 1
    /\ s.wlog[i].returned => (s.wlog[i].code = 0 /\ Len(s.wlog[i].result) = Len(s.wlog[i].children))

\* the children of the create calls addressed to the root, in call order
RootCallChildren(s) ==
  Flatten([i \in 1..Len(s.wlog) |->
             IF s.wlog[i].parent = s.docToken
             THEN Flatten([j \in 1..Max(1, Len(s.wlog[i].replies)) |-> s.wlog[i].children])
             ELSE <<>>])

\* the blocks TopLevelOrder names, as created: supported ones, sanitized
TopLevelSanitized(s) ==
  cleanBlocksForInsert(Resolve(buildBlockMap(s.blocks), s.firstLevelBlockIds)).cleaned

AllIdsResolve(s) ==
  \A i \in 1..Len(s.firstLevelBlockIds) :
    \E j \in 1..Len(s.blocks) : s.blocks[j].block_id = s.firstLevelBlockIds[i]

IsPrefix(q, r) == Len(q) <= Len(r) /\ q = SubSeq(r, 1, Len(q))

\* C1 as stated: a success result for non-empty markdown has blocks_added > 0.
C1_AsStated ==
  \A p \in Procs :
    (ps[p].pc = "done" /\ ps[p].markdown # "") => ps[p].outcome.blocks_added > 0

\* C1: a success result of writeDoc / appendDoc for markdown that is non-empty
\* after trimming has blocks_added > 0, the number of blocks the inserts returned;
\* with zero inserted blocks the operation ends in an error instead.
C1_NonBlankSuccessAddsBlocks ==
  \A p \in Procs :
    LET s == ps[p] IN
    /\ (s.pc = "done" /\ Trim(s.markdown) # "") =>
         (s.outcome.status = "ok" /\ s.outcome.blocks_added > 0
          /\ s.outcome.blocks_added = Len(s.inserted))
    /\ (s.pc \in {"done", "failed"} /\ Trim(s.markdown) # "" /\ Len(s.blocks) > 0
        /\ Len(s.inserted) = 0) => s.outcome.status = "error"

\* the zero-insertion guard fired for a document of unsupported blocks only
C1_Witness ==
  \E p \in Procs :
    /\ ps[p].pc = "failed"
    /\ ps[p].outcome.error = "produced zero inserted blocks for non-empty content"
    /\ Len(ps[p].orderedBlocks) > 0
    /\ \A i \in 1..Len(ps[p].orderedBlocks) : ~IsSupported(ps[p].orderedBlocks[i])
    /\ "TableCell" \in Range(ps[p].skipped)

\* C2 as stated: the root's children are the inserted blocks in TopLevelOrder,
\* whatever TopLevelOrder is.
C2_AsStated ==
  \A p \in Procs :
    LET s == ps[p]
        root == docs[s.docToken].root
    IN (s.pc = "done" /\ s.op = "write" /\ AllCreatesSucceeded(s)) =>
         /\ \A i \in 1..Len(root) : root[i].content > 0
         /\ Contents(root) = Contents(TopLevelSanitized(s))

\* C2: after a successful write in which every create call succeeded, no child
\* that was in the document before the call remains, and the root's children are
\* exactly the root-level blocks this write inserted, in the order the write
\* handed them over: TopLevelOrder when it is non-empty and resolves.
C2_WriteReplacesContent ==
  \A p \in Procs :
    LET s == ps[p]
        root == docs[s.docToken].root
    IN (s.pc = "done" /\ s.op = "write" /\ AllCreatesSucceeded(s)) =>
         /\ \A i \in 1..Len(root) : root[i].content > 0
         /\ Contents(root) = Contents(cleanBlocksForInsert(s.orderedBlocks).cleaned)
         /\ (s.firstLevelBlockIds # <<>> /\ AllIdsResolve(s)) =>
              Contents(root) = Contents(TopLevelSanitized(s))
         /\ AllCreatesEchoed(s) =>
              root = SelectSeq(s.inserted, LAMBDA b : b.parent_id = s.docToken)
         /\ s.outcome.blocks_deleted = s.listed

\* a write over existing children that inserted a table and another block
C2_Witness ==
  \E p \in Procs :
    /\ ps[p].pc = "done" /\ ps[p].op = "write" /\ AllCreatesSucceeded(ps[p])
    /\ ps[p].outcome.blocks_deleted = MaxExisting
    /\ Len(docs[ps[p].docToken].root) = 2
    /\ \E i \in 1..2 : docs[ps[p].docToken].root[i].block_type = TTable

\* C3 as stated: the precondition does not exclude an empty TopLevelOrder.
C3_AsStated ==
  \A p \in Procs :
    LET s == ps[p] IN
    (s.pc = "done" /\ AllCreatesSucceeded(s) /\ AllIdsResolve(s)) =>
      RootCallChildren(s) = TopLevelSanitized(s)

\* C3: in a write / append in which every create call succeeds and TopLevelOrder
\* is non-empty and resolves, the children of the root-addressed create calls,
\* concatenated in call order, are at every moment a prefix of the sanitized
\* blocks of TopLevelOrder, and all of them once the operation is done.
C3_RootCallsFollowTopLevelOrder ==
  \A p \in Procs :
    LET s == ps[p] IN
    (s.firstLevelBlockIds # <<>> /\ AllCreatesSucceeded(s) /\ AllIdsResolve(s)) =>
      /\ IsPrefix(RootCallChildren(s), TopLevelSanitized(s))
      /\ s.pc = "done" => RootCallChildren(s) = TopLevelSanitized(s)

\* done, with two top-level blocks that the converter returned in another order
C3_Witness ==
  \E p \in Procs :
    LET s == ps[p] IN
    /\ s.pc = "done" /\ AllCreatesSucceeded(s)
    /\ Len(s.firstLevelBlockIds) = 2 /\ Len(RootCallChildren(s)) = 2
    /\ s.blocks[1].block_id # s.firstLevelBlockIds[1]

\* the blocks of a remote document: the root's children and the cells' children
RemoteBlocks(doc) ==
  doc.root \o Flatten([i \in 1..Len(doc.root) |->
                Flatten([c \in 1..Len(doc.root[i].cells) |-> doc.kids[doc.root[i].cells[c]]])])

Occurrences(q, x) == Cardinality({i \in 1..Len(q) : q[i] = x})

\* C4: no create call on any path (batch, per-block fallback, table skeleton,
\* cell content) carries a child of type TableCell, and an engine run that was
\* handed a TableCell block reports "TableCell" as skipped, as does the result
\* of the operation.
C4_UnsupportedNeverSubmitted ==
  \A p \in Procs :
    LET s == ps[p] IN
    /\ \A i \in 1..Len(s.wlog) : \A j \in 1..Len(s.wlog[i].children) :
         s.wlog[i].children[j].block_type # 32
    /\ \A i \in 1..Len(s.elog) :
         (\E j \in 1..Len(s.elog[i].blocks) : s.elog[i].blocks[j].block_type = 32)
           => "TableCell" \in Range(s.elog[i].skipped)
    /\ (s.pc = "done" /\ \E i \in 1..Len(s.elog) : \E j \in 1..Len(s.elog[i].blocks) :
                            s.elog[i].blocks[j].block_type = 32)
         => "TableCell" \in Range(s.outcome.skipped)

\* a finished operation whose engine was handed a cell beside a text block
C4_Witness ==
  \E p \in Procs :
    /\ ps[p].pc = "done"
    /\ ps[p].outcome.skipped = <<"TableCell">>
    /\ ps[p].outcome.blocks_added > 0
    /\ \E i \in 1..Len(ps[p].elog) :
         {ps[p].elog[i].blocks[j].block_type : j \in 1..Len(ps[p].elog[i].blocks)} = {2, 32}

\* a failure reply that isRetryableCreateError classifies as transient
RetryableReply(r) == ~r.thrown /\ r.code # 0 /\ isRetryableCreateError(r.code, r.msg)

\* every create reply so far is a success or a transient failure
OnlyTransientFailures(s) ==
  \A i \in 1..Len(s.wlog) : \A j \in 1..Len(s.wlog[i].replies) :
    LET r == s.wlog[i].replies[j] IN ~r.thrown /\ (r.code = 0 \/ RetryableReply(r))

\* C5: in a write / append of non-blank markdown whose TopLevelOrder is
\* non-empty and resolves, and whose create calls report nothing but successes
\* and transient failures, no source block is in the remote document more than
\* once.
C5_NoDuplicateContent ==
  \A p \in Procs :
    LET s == ps[p]
        remote == Contents(RemoteBlocks(docs[s.docToken]))
    IN (Trim(s.markdown) # "" /\ s.firstLevelBlockIds # <<>> /\ AllIdsResolve(s)
        /\ OnlyTransientFailures(s)) =>
         \A i \in 1..Len(remote) : remote[i] > 0 => Occurrences(remote, remote[i]) = 1

\* the calls of createChildrenWithRetry that engine run e made, in call order
EngCalls(s, e) == SelectSeq(s.wlog, LAMBDA w : w.eng = e)

\* createChildrenWithRetry has returned or thrown
Finished(w) == w.returned \/ w.thrown

\* C6: when the create call for a batch of k sanitized blocks has returned a
\* non-success response from the retry wrapper, the next k invocations of the
\* wrapper are single-child creates of the batch's blocks, in batch order, under
\* the same parent, each issued once the one before it has returned or thrown;
\* after the last of them the run goes on with the next batch or returns
\* normally. The result of a run is the concatenation, in call order, of the
\* children returned by its calls that succeeded, and the batches of a run that
\* returned cover all its sanitized blocks whatever failed on the way. No
\* operation fails on the outcome of a single-child create.
C6_FailedBatchDegradesToSingles ==
  \A p \in Procs :
    LET s == ps[p]
        n == Len(s.wlog)
    IN
    /\ \A i \in 1..n :
         LET b == s.wlog[i]
             k == Len(b.children)
         IN (b.ctx = "batch" /\ b.returned /\ b.code # 0) =>
              /\ n >= i + 1
              /\ \A j \in 1..k :
                   /\ i + j <= n =>
                        /\ s.wlog[i + j].ctx = "single"
                        /\ s.wlog[i + j].children = <<b.children[j]>>
                        /\ s.wlog[i + j].parent = b.parent
                        /\ s.wlog[i + j].eng = b.eng
                   /\ (j < k /\ i + j <= n /\ Finished(s.wlog[i + j])) => n >= i + j + 1
              /\ (i + k <= n /\ Finished(s.wlog[i + k])) =>
                   \/ \E e \in 1..Len(s.elog) : s.elog[e].eng = b.eng
                   \/ /\ n > i + k
                      /\ s.wlog[i + k + 1].ctx = "batch"
                      /\ s.wlog[i + k + 1].eng = b.eng
    /\ \A e \in 1..Len(s.elog) :
         LET g == s.elog[e]
             calls == EngCalls(s, g.eng)
         IN /\ g.children =
                 Flatten([c \in 1..Len(calls) |->
                            IF calls[c].returned /\ calls[c].code = 0
                            THEN calls[c].result ELSE <<>>])
            /\ Flatten([c \in 1..Len(calls) |->
                          IF calls[c].ctx = "batch" THEN calls[c].children ELSE <<>>])
                 = cleanBlocksForInsert(g.blocks).cleaned
    /\ (s.pc = "failed" /\ n > 0 /\ s.wlog[n].ctx = "single") =>
         /\ \E e \in 1..Len(s.elog) : s.elog[e].eng = s.wlog[n].eng
         /\ s.outcome.error = "produced zero inserted blocks for non-empty content"

\* a batch of two failed, its first block failed alone too, its second block was
\* created alone, and the operation succeeded with that one block
C6_Witness ==
  \E p \in Procs :
    LET s == ps[p] IN
    /\ s.pc = "done" /\ s.outcome.blocks_added = 1
    /\ Len(s.wlog) = 3
    /\ s.wlog[1].ctx = "batch" /\ s.wlog[1].code # 0 /\ Len(s.wlog[1].children) = 2
    /\ s.wlog[2].ctx = "single" /\ s.wlog[2].returned /\ s.wlog[2].code # 0
    /\ s.wlog[3].ctx = "single" /\ s.wlog[3].returned /\ s.wlog[3].code = 0
    /\ Contents(s.inserted) = Contents(s.wlog[3].children)

\* C7: an invocation of executeWithBackoff calls the operation at most
\* maxAttempts = 4 times; every call but the last one made so far returned a
\* retryable failure; it returns only after a success, a non-retryable failure
\* or its fourth call, and then returns the response of its last call; while it
\* has not returned, all its calls failed retryably and fewer than four were
\* made; it throws only when a call itself threw.
C7_AttemptsUntilSettled ==
  \A p \in Procs :
    LET s == ps[p] IN
    /\ maxAttempts = 4
    /\ \A i \in 1..Len(s.wlog) :
         LET w == s.wlog[i]
             n == Len(w.replies)
         IN /\ n <= 4
            /\ \A j \in 1..(n - 1) : RetryableReply(w.replies[j])
            /\ w.returned =>
                 /\ n >= 1
                 /\ ~w.replies[n].thrown
                 /\ w.replies[n].code = 0 \/ ~RetryableReply(w.replies[n]) \/ n = 4
                 /\ w.code = w.replies[n].code
            /\ w.thrown => (n >= 1 /\ w.replies[n].thrown /\ ~w.returned)
            /\ ~Finished(w) =>
                 /\ i = Len(s.wlog) /\ s.pc \in {"create", "sleep"}
                 /\ n < 4
                 /\ \A j \in 1..n : RetryableReply(w.replies[j])
                 /\ s.attempt = (IF s.pc = "create" THEN n + 1 ELSE n)

\* four calls failed retryably and the fourth failure was returned, not thrown
C7_Witness ==
  \E p \in Procs : \E i \in 1..Len(ps[p].wlog) :
    LET w == ps[p].wlog[i] IN
    /\ w.returned /\ w.code # 0 /\ Len(w.replies) = 4
    /\ \A j \in 1..4 : RetryableReply(w.replies[j])
    /\ ps[p].pc # "failed"

\* the delays computeBackoffDelayMs can return for attempts up to this one are
\* compared with the stated interval, beyond the attempts the wrapper waits for
BackoffProbe == 6

\* the interval of C8 around e = min(2500, 250 * 2^(k-1)), in integers
InJitterInterval(w, k) ==
  LET e == Min(2500, 250 * Pow2(k - 1))
  IN 10 * w >= 8 * e /\ 10 * w <= 12 * e /\ w >= 0 /\ w <= 3000

\* C8: the wait after failed attempt k of an invocation of executeWithBackoff,
\* k = 1 .. 3, lies in [0.8 e, 1.2 e] for e = min(2500, 250 * 2^(k-1)), is at
\* most 3000 ms and is not negative; computeBackoffDelayMs stays in that
\* interval for later attempts too, where the cap of 2500 applies.
C8_WaitWithinJitter ==
  /\ \A p \in Procs : \A i \in 1..Len(ps[p].wlog) :
       LET w == ps[p].wlog[i] IN
       /\ Len(w.waits) <= 3
       /\ \A k \in 1..Len(w.waits) : InJitterInterval(w.waits[k], k)
  /\ \A p \in Procs :
       ps[p].pc = "sleep" =>
         \A a \in 1..BackoffProbe : \A k \in env.random :
           InJitterInterval(computeBackoffDelayMs(a, k), a)

\* three waits, the first at the low end and the third at the high end
C8_Witness ==
  \E p \in Procs : \E i \in 1..Len(ps[p].wlog) :
    LET w == ps[p].wlog[i] IN
    Len(w.waits) = 3 /\ w.waits[1] = 200 /\ w.waits[3] = 1200

\* C9: an invocation of executeWithBackoff waits at most maxAttempts - 1 = 3
\* times, once after each call but the last: none after its final call, after a
\* success or after a non-retryable failure; its waits add up to at most
\* maxAttempts * maxDelayMs * (1 + jitterRatio) = 12000 ms.
C9_WaitsBounded ==
  \A p \in Procs :
    LET s == ps[p] IN
    \A i \in 1..Len(s.wlog) :
      LET w == s.wlog[i]
          n == Len(w.replies)
      IN /\ Len(w.waits) <= maxAttempts - 1
         /\ Finished(w) => Len(w.waits) = n - 1
         /\ ~Finished(w) =>
              Len(w.waits) = n
         /\ \A k \in 1..Len(w.waits) : RetryableReply(w.replies[k]) /\ k < maxAttempts
         /\ 100 * SumSeq(w.waits) <= maxAttempts * maxDelayMs * (100 + jitterRatioPct)
         /\ SumSeq(w.waits) <= 12000

\* three waits, then the fourth call succeeded and no wait followed
C9_Witness ==
  \E p \in Procs : \E i \in 1..Len(ps[p].wlog) :
    LET w == ps[p].wlog[i] IN
    /\ w.returned /\ w.code = 0 /\ Len(w.replies) = 4 /\ Len(w.waits) = 3
    /\ ps[p].pc = "done"

\* chunk c of a sequence of blocks cut every 50
Chunk50(blocks, c) == SubSeq(blocks, 50 * (c - 1) + 1, Min(50 * c, Len(blocks)))

\* C10: no create call carries more than 50 children or none. A run of
\* insertBlocksInBatches in which every call succeeded at once made exactly one
\* call per chunk of 50 consecutive blocks that is non-empty after sanitation,
\* in order, with the sanitized chunk as children: ceil(n / 50) calls when all n
\* blocks are insertable.
C10_ChunksOfAtMost50 ==
  \A p \in Procs :
    LET s == ps[p] IN
    /\ \A i \in 1..Len(s.wlog) :
         Len(s.wlog[i].children) >= 1 /\ Len(s.wlog[i].children) <= 50
    /\ \A e \in 1..Len(s.elog) :
         LET g == s.elog[e]
             calls == EngCalls(s, g.eng)
             n == Len(g.blocks)
             nChunks == (n + 49) \div 50
             expected == SelectSeq([c \in 1..nChunks |->
                                      cleanBlocksForInsert(Chunk50(g.blocks, c)).cleaned],
                                   LAMBDA q : Len(q) > 0)
         IN (\A c \in 1..Len(calls) :
               calls[c].returned /\ calls[c].code = 0 /\ Len(calls[c].replies) = 1) =>
              /\ [c \in 1..Len(calls) |-> calls[c].children] = expected
              /\ (\A j \in 1..n : g.blocks[j].block_type # 32) => Len(calls) = nChunks

\* a document of 100 + BulkTail insertable blocks went out as three calls
C10_Witness ==
  \E p \in Procs :
    LET s == ps[p] IN
    /\ s.pc = "done" /\ AllCreatesSucceeded(s)
    /\ [i \in 1..Len(s.wlog) |-> Len(s.wlog[i].children)] = <<50, 50, BulkTail>>
    /\ s.outcome.blocks_added = 100 + BulkTail

\* the blocks met when walking order and looking each id up in the collection
RECURSIVE WalkOrder(_, _)
WalkOrder(collection, order) ==
  IF order = <<>> THEN <<>>
  ELSE LET hits == {i \in 1..Len(collection) : collection[i].block_id = Head(order)}
       IN (IF hits = {} THEN <<>> ELSE <<collection[CHOOSE i \in hits : TRUE]>>)
          \o WalkOrder(collection, Tail(order))

\* the reference of C11
ReorderReference(collection, order) ==
  IF order = <<>> \/ WalkOrder(collection, order) = <<>> THEN collection
  ELSE WalkOrder(collection, order)

BlockIds(blocks) == [i \in 1..Len(blocks) |-> blocks[i].block_id]

\* C11: the blocks writeDoc / appendDoc insert are reorderBlocks(collection,
\* order) and equal the reference: the collection unchanged when order is empty
\* or none of its ids resolves, else the blocks met walking order, skipping ids
\* that do not resolve; for an order fully present the ids of the result are
\* exactly order, and when some id resolves no block outside order is in it.
C11_ReorderMatchesReference ==
  \A p \in Procs :
    LET s == ps[p]
        present == Range(BlockIds(s.blocks))
    IN s.blocks # <<>> =>
         /\ s.orderedBlocks = ReorderReference(s.blocks, s.firstLevelBlockIds)
         /\ (s.firstLevelBlockIds # <<>> /\ Range(s.firstLevelBlockIds) \subseteq present) =>
              BlockIds(s.orderedBlocks) = s.firstLevelBlockIds
         /\ (Range(s.firstLevelBlockIds) \cap present # {}) =>
              Range(BlockIds(s.orderedBlocks)) \subseteq Range(s.firstLevelBlockIds)
         /\ (Range(s.firstLevelBlockIds) \cap present = {}) => s.orderedBlocks = s.blocks

\* an order of three ids, all present, over a collection returned in another order
C11_Witness ==
  \E p \in Procs :
    LET s == ps[p] IN
    /\ Len(s.firstLevelBlockIds) = 3 /\ Cardinality(Range(s.firstLevelBlockIds)) = 3
    /\ BlockIds(s.orderedBlocks) = s.firstLevelBlockIds
    /\ BlockIds(s.blocks) # s.firstLevelBlockIds
    /\ s.pc = "done"

\* the positions in orderedBlocks of the blocks a create call carries
TopPositions(s, w) ==
  {i \in 1..Len(s.orderedBlocks) :
     \E j \in 1..Len(w.children) : w.children[j].content = s.orderedBlocks[i].content}

\* the calls of the table skeletons, by index in wlog
TableCalls(s) == {t \in 1..Len(s.wlog) : s.wlog[t].ctx = "table"}

\* C12: the calls of insertBlocksPreservingTables come one after the other. For
\* the skeleton call of the table at position q of the top-level sequence:
\* every insertable non-table block before q was submitted in an earlier call;
\* the root-addressed calls before it carry only blocks before q, those after
\* it only blocks after q; a call addressed to a cell is addressed to a cell of
\* the table created last, with no root-addressed call in between. The buffer
\* is empty while a table is inserted and when the function has returned.
C12_TablesFlushTheBuffer ==
  \A p \in Procs :
    LET s == ps[p]
        n == Len(s.wlog)
    IN
    /\ \A i \in 1..(n - 1) : Finished(s.wlog[i])
    /\ \A t \in TableCalls(s) :
         \A q \in TopPositions(s, s.wlog[t]) :
           /\ \A i \in 1..(q - 1) :
                (IsSupported(s.orderedBlocks[i]) /\ s.orderedBlocks[i].block_type # TTable) =>
                  \E c \in 1..(t - 1) : s.wlog[c].parent = s.docToken
                                          /\ i \in TopPositions(s, s.wlog[c])
           /\ \A c \in 1..n :
                (c # t /\ s.wlog[c].parent = s.docToken) =>
                  \A i \in TopPositions(s, s.wlog[c]) : IF c < t THEN i < q ELSE i > q
    /\ \A c \in 1..n :
         s.wlog[c].parent # s.docToken =>
           \E t \in TableCalls(s) :
             /\ t < c
             /\ \A i \in (t + 1)..c : s.wlog[i].parent # s.docToken
             /\ Len(s.wlog[t].result) = 1
             /\ s.wlog[c].parent \in Range(s.wlog[t].result[1].cells)
    /\ (s.pc \in {"create", "sleep"} /\ (s.ctx = "table" \/ s.eCaller = "cell")) =>
         s.buffer = <<>>
    /\ s.pc = "done" => s.buffer = <<>>

\* text, table, text: the first text went out before the skeleton, the cell
\* contents after it, the second text last
C12_Witness ==
  \E p \in Procs :
    LET s == ps[p] IN
    /\ s.pc = "done" /\ AllCreatesSucceeded(s)
    /\ [i \in 1..Len(s.wlog) |-> s.wlog[i].ctx] = <<"batch", "table", "batch", "batch", "batch">>
    /\ [i \in 1..Len(s.wlog) |-> s.wlog[i].parent = s.docToken] = <<TRUE, TRUE, FALSE, FALSE, TRUE>>
    /\ Len(docs[s.docToken].root) = 3

\* the skeleton call of the k-th table, as an index of wlog
TableCall(s, k) ==
  CHOOSE t \in TableCalls(s) : Cardinality({u \in TableCalls(s) : u <= t}) = k

\* the skeleton call t returned a table with d > 0 cells for a source table of
\* s > 0 cells, s # d
CellCountMismatch(s, t) ==
  LET w == s.wlog[t] IN
  /\ w.returned /\ w.code = 0 /\ Len(w.result) = 1 /\ w.result[1].block_type = 31
  /\ Len(w.result[1].cells) > 0
  /\ Len(s.orderedBlocks[CHOOSE q \in TopPositions(s, w) : TRUE].cells) > 0
  /\ Len(w.result[1].cells) # Len(s.orderedBlocks[CHOOSE q \in TopPositions(s, w) : TRUE].cells)

\* the calls addressed to cells of the table that skeleton call t created
CellCalls(s, t) ==
  {c \in 1..Len(s.wlog) :
     /\ c > t /\ s.wlog[c].parent # s.docToken
     /\ \A i \in (t + 1)..c : s.wlog[i].parent # s.docToken}

\* the operation failed on a create call: a call that threw, or a table
\* skeleton call that returned a failure
FailedOnCreate(s) ==
  /\ s.pc = "failed" /\ Len(s.wlog) > 0
  /\ LET w == s.wlog[Len(s.wlog)]
     IN (w.thrown /\ w.ctx # "single") \/ (w.ctx = "table" /\ w.returned /\ w.code # 0)

\* C13: when the skeleton call of a table with s > 0 source cells returned a
\* table with d > 0 cells, s # d: cell content is submitted to the first
\* min(s, d) created cells only; insertTableWithCells returns a result whose
\* first child is the created table and whose warnings cite s and d, unless a
\* later create call fails the operation; the mismatch itself fails nothing.
C13_CellCountMismatchTolerated ==
  \A p \in Procs :
    LET s == ps[p] IN
    \A k \in 1..Cardinality(TableCalls(s)) :
      LET t == TableCall(s, k)
          w == s.wlog[t]
          src == s.orderedBlocks[CHOOSE q \in TopPositions(s, w) : TRUE].cells
          dst == w.result[1].cells
      IN CellCountMismatch(s, t) =>
           /\ \A c \in CellCalls(s, t) :
                \E i \in 1..Min(Len(src), Len(dst)) : s.wlog[c].parent = dst[i]
           /\ k <= Len(s.tlog) =>
                /\ s.tlog[k].children # <<>> /\ s.tlog[k].children[1] = w.result[1]
                /\ \E x \in 1..Len(s.tlog[k].warnings) :
                     /\ s.tlog[k].warnings[x].text = "Table cell count mismatch after create"
                     /\ s.tlog[k].warnings[x].a = Len(src)
                     /\ s.tlog[k].warnings[x].b = Len(dst)
           /\ k > Len(s.tlog) =>
                /\ k = Cardinality(TableCalls(s))
                /\ \/ s.pc \in {"create", "sleep"} /\ s.eCaller = "cell" /\ s.ctx # "table"
                   \/ FailedOnCreate(s) /\ Len(s.wlog) > t
           /\ s.pc = "done" =>
                /\ k <= Len(s.tlog)
                /\ \E x \in 1..Len(s.outcome.warnings) :
                     s.outcome.warnings[x] =
                       [text |-> "Table cell count mismatch after create",
                        a |-> Len(src), b |-> Len(dst)]

\* three source cells, two created: the table and the two blocks of the first
\* cell are the result, the content of the third cell is not copied
C13_Witness ==
  \E p \in Procs :
    LET s == ps[p] IN
    /\ s.pc = "done" /\ Len(s.tlog) = 1
    /\ CellCountMismatch(s, TableCall(s, 1))
    /\ Len(s.tlog[1].table.cells) = 3
    /\ Len(s.tlog[1].children) = 3 /\ Len(s.tlog[1].children[1].cells) = 2
    /\ s.tlog[1].warnings =
         <<[text |-> "Table cell count mismatch after create", a |-> 3, b |-> 2]>>
    /\ s.outcome.blocks_added = 3

\* the block of the collection with the given id
BlockOf(s, id) == s.blocks[CHOOSE i \in 1..Len(s.blocks) : s.blocks[i].block_id = id]

\* the content of a source cell, as payload contents: its child blocks in
\* child order, or the text the cell carries itself when it has no child
CellContents(s, cellId) ==
  LET cell == BlockOf(s, cellId)
  IN IF cell.children # <<>>
     THEN [j \in 1..Len(cell.children) |-> BlockOf(s, cell.children[j]).content]
     ELSE IF cell.content # 0 THEN <<cell.content>> ELSE <<>>

\* the index of a created cell in the list of cells of its table
CellIndex(dst, cellId) == CHOOSE i \in 1..Len(dst) : dst[i] = cellId

\* C14: for a table whose skeleton call returned the cells dst for the source
\* cells src: every call addressed to a cell is addressed to dst[i] for an
\* i <= min(len src, len dst) whose source cell has content, and carries blocks
\* of source cell i only; the runs of the insert engine for the table's cells
\* come with i increasing, each handed the content of source cell i in child
\* order; once the table has returned there is exactly one run per such i;
\* when every reply was a success carrying the created blocks and
\* len src = len dst there is no warning at all; when every reply was a
\* success the store holds under dst[i] the content of source cell i and
\* nothing under the other cells.
C14_CellContentUnderItsCell ==
  \A p \in Procs :
    LET s == ps[p] IN
    \A k \in 1..Cardinality(TableCalls(s)) :
      LET t == TableCall(s, k)
          w == s.wlog[t]
          src == s.orderedBlocks[CHOOSE q \in TopPositions(s, w) : TRUE].cells
          dst == IF Len(w.result) = 1 THEN w.result[1].cells ELSE <<>>
          both == Min(Len(src), Len(dst))
          withContent == {i \in 1..both : CellContents(s, src[i]) # <<>>}
          runs == SelectSeq(s.elog, LAMBDA g : g.parent \in Range(dst))
      IN /\ \A c \in CellCalls(s, t) :
              \E i \in withContent :
                /\ s.wlog[c].parent = dst[i]
                /\ Range(Contents(s.wlog[c].children)) \subseteq Range(CellContents(s, src[i]))
                /\ s.wlog[c].ctx = "batch" =>
                     Contents(s.wlog[c].children) = CellContents(s, src[i])
         /\ \A c \in 1..Len(s.wlog) : \A i \in 1..Len(src) :
              (Range(Contents(s.wlog[c].children)) \cap Range(CellContents(s, src[i])) # {}) =>
                (c \in CellCalls(s, t) /\ i \in withContent /\ s.wlog[c].parent = dst[i])
         /\ \A a \in 1..Len(runs) :
              /\ CellIndex(dst, runs[a].parent) \in withContent
              /\ Contents(runs[a].blocks) = CellContents(s, src[CellIndex(dst, runs[a].parent)])
              /\ \A b \in (a + 1)..Len(runs) :
                   CellIndex(dst, runs[a].parent) < CellIndex(dst, runs[b].parent)
         /\ k <= Len(s.tlog) =>
              /\ {CellIndex(dst, runs[a].parent) : a \in 1..Len(runs)} = withContent
              /\ (AllCreatesEchoed(s) /\ Len(src) = Len(dst)) => s.tlog[k].warnings = <<>>
              /\ AllCreatesSucceeded(s) =>
                   \A i \in 1..Len(dst) :
                     Contents(docs[s.docToken].kids[dst[i]]) =
                       (IF i \in withContent THEN CellContents(s, src[i]) ELSE <<>>)

\* a table of three cells created with three cells: the two blocks of the
\* first cell and the text of the third went under their cells, in this order
C14_Witness ==
  \E p \in Procs :
    LET s == ps[p] IN
    /\ s.pc = "done" /\ AllCreatesSucceeded(s) /\ Len(s.tlog) = 1 /\ Len(s.elog) = 2
    /\ Len(s.tlog[1].children[1].cells) = 3
    /\ s.elog[1].parent = s.tlog[1].children[1].cells[1] /\ Len(s.elog[1].blocks) = 2
    /\ s.elog[2].parent = s.tlog[1].children[1].cells[3] /\ Len(s.elog[2].blocks) = 1
    /\ docs[s.docToken].kids[s.tlog[1].children[1].cells[2]] = <<>>
    /\ s.outcome.warnings = <<>>

\* the skeleton call t returned success without a table block, or with a table
\* that has no cells
NoTableOrNoCells(s, t) ==
  LET w == s.wlog[t] IN
  /\ w.returned /\ w.code = 0
  /\ Len(w.result) = 0 \/ w.result[1].block_type # 31 \/ w.result[1].cells = <<>>

\* C15 as stated: an empty cell id list of the created table always gives a
\* warning.
C15_AsStated ==
  \A p \in Procs :
    LET s == ps[p] IN
    \A k \in 1..Cardinality(TableCalls(s)) :
      NoTableOrNoCells(s, TableCall(s, k)) =>
        (k <= Len(s.tlog) /\ s.tlog[k].warnings # <<>>)

\* C15: when the skeleton call returned success without a table block, or with
\* a table without cells, insertTableWithCells returns at once: no call is
\* addressed to a cell, its children are those of the response, and the
\* operation does not fail on it. Its one warning says that the table block was
\* not returned, or, for a source table that lists cells, that no cells were
\* returned; for a source table that lists no cells there is no warning.
C15_MissingTableOrCellsReturnsAtOnce ==
  \A p \in Procs :
    LET s == ps[p] IN
    \A k \in 1..Cardinality(TableCalls(s)) :
      LET t == TableCall(s, k)
          w == s.wlog[t]
          src == s.orderedBlocks[CHOOSE q \in TopPositions(s, w) : TRUE].cells
      IN NoTableOrNoCells(s, t) =>
           /\ CellCalls(s, t) = {}
           /\ k <= Len(s.tlog)
           /\ s.tlog[k].children = w.result
           /\ s.tlog[k].warnings =
                (IF Len(w.result) = 0
                 THEN <<[text |-> "Table block was not returned after create", a |-> 0, b |-> 0]>>
                 ELSE IF Len(src) = 0 THEN <<>>
                 ELSE <<[text |-> "Table created but API did not return generated cells",
                         a |-> 0, b |-> 0]>>)
           /\ (s.pc = "failed" /\ Len(s.wlog) = t) =>
                s.outcome.error = "produced zero inserted blocks for non-empty content"

\* a table of three source cells was created without cells: the table is in the
\* result, the warning is reported, nothing went under a cell
C15_Witness ==
  \E p \in Procs :
    LET s == ps[p] IN
    /\ s.pc = "done" /\ Len(s.tlog) = 1 /\ Len(s.wlog) = 1
    /\ Len(s.tlog[1].table.cells) = 3
    /\ Len(s.tlog[1].children) = 1 /\ s.tlog[1].children[1].cells = <<>>
    /\ s.outcome.warnings =
         <<[text |-> "Table created but API did not return generated cells", a |-> 0, b |-> 0]>>
    /\ s.outcome.blocks_added = 1

\* C16: a skeleton call that returned a failure from the retry wrapper is not
\* fatal: insertTableWithCells returns a result with a warning and the
\* operation does not fail on it.
C16_SkeletonFailureNotFatal ==
  \A p \in Procs :
    LET s == ps[p] IN
    \A k \in 1..Cardinality(TableCalls(s)) :
      LET w == s.wlog[TableCall(s, k)]
      IN (w.returned /\ w.code # 0) =>
           /\ s.pc # "failed"
           /\ k <= Len(s.tlog) /\ s.tlog[k].warnings # <<>>

\* the http and https targets of the markdown, in textual order
HttpUrls(markdown) ==
  LET all == ImageTargets(markdown)
      keep == {i \in 1..Len(all) : all[i].scheme = "http" \/ all[i].scheme = "https"}
      RECURSIVE Pick(_)
      Pick(i) == IF i > Len(all) THEN <<>>
                 ELSE IF i \in keep THEN <<all[i]>> \o Pick(i + 1) ELSE Pick(i + 1)
  IN Pick(1)

\* the ids of the inserted image blocks, in insertion order
InsertedImageIds(s) ==
  LET RECURSIVE Pick(_)
      Pick(i) == IF i > Len(s.inserted) THEN <<>>
                 ELSE IF s.inserted[i].block_type = TImage
                      THEN <<s.inserted[i].block_id>> \o Pick(i + 1) ELSE Pick(i + 1)
  IN Pick(1)

\* the pairs processImages is to attempt: min(U, B)
PairCount(s) == Min(Len(HttpUrls(s.markdown)), Len(InsertedImageIds(s)))

\* every call of the pair succeeded
PairSucceeded(e) == e.download = "ok" /\ e.upload = "ok" /\ e.patch = "ok"

\* C17: processImages attempts exactly min(U, B) pairs, the i-th of them with
\* the i-th http/https URL of the markdown and the i-th inserted image block;
\* images_processed is at most min(U, B), and is min(U, B) when every download,
\* upload and patch succeeded.
C17_ImagePairing ==
  \A p \in Procs :
    LET s == ps[p] IN
    /\ Len(s.ilog) <= PairCount(s)
    /\ \A i \in 1..Len(s.ilog) :
         /\ s.ilog[i].i = i - 1
         /\ s.ilog[i].url = HttpUrls(s.markdown)[i]
         /\ s.ilog[i].block = InsertedImageIds(s)[i]
    /\ s.pc = "done" =>
         /\ Len(s.ilog) = PairCount(s)
         /\ s.outcome.images_processed <= PairCount(s)
         /\ (\A i \in 1..Len(s.ilog) : PairSucceeded(s.ilog[i])) =>
              s.outcome.images_processed = PairCount(s)

\* three http(s) URLs and two image blocks around a text block: two pairs, both
\* processed
C17_Witness ==
  \E p \in Procs :
    LET s == ps[p] IN
    /\ s.pc = "done" /\ Len(s.inserted) = 3
    /\ Len(HttpUrls(s.markdown)) = 3 /\ Len(InsertedImageIds(s)) = 2
    /\ Len(s.ilog) = 2 /\ s.ilog[2].url.rest = "h/2.png"
    /\ s.ilog[2].block = s.inserted[3].block_id
    /\ s.outcome.images_processed = 2

\* the pair has ended and one of its calls failed
PairFailed(s, i) ==
  /\ i < Len(s.ilog) \/ s.pc \in {"done", "failed"}
  /\ ~PairSucceeded(s.ilog[i])

\* C18: a pair of which the download, the upload or the patch failed is not
\* counted in images_processed, does not fail the operation, and is followed by
\* the attempt of every later pair.
C18_FailedPairNotCounted ==
  \A p \in Procs :
    LET s == ps[p] IN
    /\ \A i \in 1..Len(s.ilog) : PairFailed(s, i) => ~s.ilog[i].counted
    /\ s.pc = "done" =>
         /\ Len(s.ilog) = PairCount(s)
         /\ s.outcome.images_processed =
              Cardinality({i \in 1..Len(s.ilog) : PairSucceeded(s.ilog[i])})
    /\ (s.pc = "failed" /\ Len(s.ilog) > 0) =>
         s.outcome.error = "produced zero inserted blocks for non-empty content"

\* the place of a remote call in the order of writeDoc
Phase(call) ==
  CASE call = "list" -> 1
    [] call = "batchDelete" -> 2
    [] call = "convert" -> 3
    [] call = "create" -> 4
    [] call \in {"download", "upload", "patch"} -> 5

\* the positions of the calls of one kind in the trace of s
CallsOf(s, kinds) == {i \in 1..Len(s.calls) : s.calls[i].call \in kinds}

\* the direct non-page children of the root of the remote document
RootChildCount(s) ==
  Cardinality({i \in 1..Len(ListItems(docs[s.docToken], s.docToken)) :
                 LET b == ListItems(docs[s.docToken], s.docToken)[i]
                 IN b.parent_id = s.docToken /\ b.block_type # TPage})

\* C19: writeDoc issues list, then batch-delete, then convert, then the create
\* calls, then the image calls. The batch-delete is issued only when the list
\* shows n > 0 direct non-page children of the root, once, with the range
\* [0, n); blocks_deleted is n; no create is issued before the delete has
\* succeeded and no image call before every insertion has ended.
C19_WriteCallOrder ==
  \A p \in Procs :
    LET s == ps[p]
        deletes == CallsOf(s, {"batchDelete"})
    IN s.op = "write" =>
         /\ s.calls[1].call = "list"
         /\ \A i, j \in 1..Len(s.calls) :
              i < j => Phase(s.calls[i].call) <= Phase(s.calls[j].call)
         /\ Cardinality(CallsOf(s, {"list"})) = 1
         /\ Cardinality(deletes) <= 1
         /\ Cardinality(CallsOf(s, {"convert"})) <= 1
         /\ s.pc = "delete" =>
              /\ deletes = {Len(s.calls)}
              /\ RootChildCount(s) > 0
              /\ s.calls[Len(s.calls)].a = 0
              /\ s.calls[Len(s.calls)].b = RootChildCount(s)
         /\ (s.pc = "convert" /\ deletes = {}) => RootChildCount(s) = 0
         /\ (deletes # {} /\ CallsOf(s, {"convert", "create"}) # {}) =>
              /\ s.deleted = s.listed /\ s.listed > 0
         /\ CallsOf(s, {"download", "upload", "patch"}) # {} =>
              /\ \A k \in 1..Len(s.wlog) : Finished(s.wlog[k])
              /\ s.pos > Len(s.orderedBlocks)
         /\ s.pc = "done" =>
              s.outcome.blocks_deleted =
                (IF deletes = {} THEN 0 ELSE s.calls[CHOOSE i \in deletes : TRUE].b)

\* a write over two existing blocks: they are deleted with [0, 2), and the
\* images are processed after the creates
C19_Witness ==
  \E p \in Procs :
    LET s == ps[p] IN
    /\ s.op = "write" /\ s.pc = "done"
    /\ \E i \in CallsOf(s, {"batchDelete"}) : s.calls[i].a = 0 /\ s.calls[i].b = 2
    /\ CallsOf(s, {"create"}) # {}
    /\ CallsOf(s, {"patch"}) # {}
    /\ s.outcome.blocks_deleted = 2 /\ s.outcome.images_processed = 1

\* C20: when write or append ends by raising an error, the content of the
\* remote document is what it was when the operation began.
C20_FailedOperationChangesNothing ==
  \A p \in Procs :
    LET s == ps[p] IN
    s.pc = "failed" => DocContent(docs[s.docToken]) = s.docBefore

\* the documents the store holds that it did not hold at the start
NewDocuments == DOMAIN docs \ DocTokens

\* C21: when createAndWriteDoc has ended, either it returned success and the
\* new document holds the content handed to the write, or it raised and no new
\* document exists.
C21_CreateAndWriteAtomic ==
  \A p \in Procs :
    LET s == ps[p] IN
    (s.via = "createAndWriteDoc" /\ s.pc \in {"done", "failed"}) =>
      \/ /\ s.pc = "done"
         /\ NewDocuments = {s.outcome.document_id}
         /\ Contents(docs[s.outcome.document_id].root) =
              Contents(cleanBlocksForInsert(s.orderedBlocks).cleaned)
      \/ /\ s.pc = "failed"
         /\ NewDocuments = {}

\* C22: createAndWriteDoc issues create-document once, as its first call; when
\* create fails or returns no document id it raises and issues no other call;
\* on success the result carries the id create returned, and the blocks_added,
\* images_processed and warnings of the write, which ran on that document.
C22_CreateThenWrite ==
  \A p \in Procs :
    LET s == ps[p] IN
    s.via = "createAndWriteDoc" =>
      /\ CallsOf(s, {"createDocument"}) = {1}
      /\ s.createdId = 0 => Len(s.calls) = 1 /\ s.pc \in {"createDoc", "failed"}
      /\ (s.pc = "failed" /\ s.createdId = 0) =>
           \/ s.failure.call = "createDocument" /\ s.outcome.error = s.failure.msg
           \/ s.failure.call = "none"
              /\ s.outcome.error = "Document created but no document_id returned"
      /\ s.createdId # 0 =>
           /\ s.createdId \in NewDocuments
           /\ s.docToken = s.createdId
           /\ \A k \in 1..Len(s.wlog) : s.wlog[k].parent = s.createdId
      /\ s.pc = "done" =>
           /\ s.outcome.status = "ok"
           /\ s.outcome.document_id = s.createdId /\ s.createdId # 0
           /\ s.outcome.blocks_added = Len(s.inserted)
           /\ s.outcome.images_processed =
                Cardinality({i \in 1..Len(s.ilog) : s.ilog[i].counted})
           /\ s.outcome.skipped = Dedupe(s.skipped)
           /\ s.outcome.warnings = Dedupe(s.warnings)
           /\ AllCreatesEchoed(s) => docs[s.createdId].root = s.inserted

\* a created document received two image blocks and a text block, and one of
\* its images
C22_Witness ==
  \E p \in Procs :
    LET s == ps[p] IN
    /\ s.via = "createAndWriteDoc" /\ s.pc = "done"
    /\ s.outcome.document_id = 2 /\ Len(docs[2].root) = 3
    /\ s.outcome.blocks_added = 3 /\ s.outcome.images_processed = 1
    /\ Len(s.ilog) = 2

\* C23: appendDoc issues no list-blocks and no batch-delete call and leaves the
\* blocks that were in the document in place, before what it adds; when the
\* conversion yields no blocks it raises with no create-children, download,
\* upload or patch call issued.
C23_AppendKeepsAndFailsFast ==
  \A p \in Procs :
    LET s == ps[p] IN
    s.op = "append" =>
      /\ CallsOf(s, {"list", "batchDelete"}) = {}
      /\ s.calls[1].call = "convert"
      /\ IsPrefix(s.docBefore.root, docs[s.docToken].root)
      /\ (s.pc # "convert" /\ s.blocks = <<>>) =>
           /\ s.pc = "failed"
           /\ \/ s.failure.call = "convert"
              \/ s.failure.call = "none" /\ s.outcome.error = "Content is empty"
           /\ CallsOf(s, {"create", "download", "upload", "patch"}) = {}
           /\ DocContent(docs[s.docToken]) = s.docBefore

\* an append whose conversion gave no blocks raised; the two blocks of the
\* document are still there
C23_Witness ==
  \E p \in Procs :
    LET s == ps[p] IN
    /\ s.op = "append" /\ s.pc = "failed" /\ s.outcome.error = "Content is empty"
    /\ Len(s.calls) = 1
    /\ Len(docs[s.docToken].root) = 2 /\ docs[s.docToken].root = s.docBefore.root

\* writeDoc's conversion has returned no blocks
ConvertedToNothing(s) ==
  /\ s.pc \in {"done", "failed"} /\ s.blocks = <<>>
  /\ CallsOf(s, {"convert"}) # {} /\ s.failure.call = "none"

\* C24: a writeDoc of empty markdown whose conversion yields no blocks returns
\* success with blocks_added = 0 and images_processed = 0, issues no
\* create-children call, and reports as blocks_deleted the number of children
\* it cleared; it does not raise.
C24_EmptyWriteIsNoOp ==
  \A p \in Procs :
    LET s == ps[p] IN
    (s.op = "write" /\ Len(Trim(s.markdown)) = 0 /\ ConvertedToNothing(s)) =>
      /\ s.pc = "done" /\ s.outcome.status = "ok"
      /\ s.outcome.blocks_added = 0 /\ s.outcome.images_processed = 0
      /\ CallsOf(s, {"create", "download", "upload", "patch"}) = {}
      /\ s.outcome.blocks_deleted = Len(s.docBefore.root)
      /\ docs[s.docToken].root = <<>>

\* a write of "" over two blocks: both are cleared, nothing is added
C24_Witness ==
  \E p \in Procs :
    LET s == ps[p] IN
    /\ s.op = "write" /\ s.markdown = "" /\ s.pc = "done" /\ s.blocks = <<>>
    /\ s.outcome.blocks_deleted = 2 /\ s.outcome.blocks_added = 0
    /\ Len(s.docBefore.root) = 2 /\ docs[s.docToken].root = <<>>

\* the payload contents of the cells of a source table that are to be copied
TableCellContents(s, table) ==
  UNION {Range(CellContents(s, table.cells[c])) : c \in 1..Len(table.cells)}

\* C29: after a successful write or append, every top-level block and every
\* content block of a table cell is in the remote document, or is a skipped
\* type named in the result, or the result carries a warning.
C29_TruthfulSummary ==
  \A p \in Procs :
    LET s == ps[p]
        remote == Range(Contents(RemoteBlocks(docs[s.docToken])))
    IN s.pc = "done" =>
         \A i \in 1..Len(s.orderedBlocks) :
           LET b == s.orderedBlocks[i] IN
           /\ \/ b.content \in remote
              \/ ~IsSupported(b) /\ TypeName(b.block_type) \in Range(s.outcome.skipped)
              \/ s.outcome.warnings # <<>>
           /\ b.block_type = TTable =>
                \/ TableCellContents(s, b) \subseteq remote
                \/ s.outcome.warnings # <<>>

\* the create calls issued and not yet answered
OutstandingCreates(s) ==
  Cardinality(CallsOf(s, {"create"}))
    - SumSeq([i \in 1..Len(s.wlog) |-> Len(s.wlog[i].replies)])

\* the blocks handed to run e of insertBlocksInBatches
EngineBlocks(s, e) ==
  IF \E i \in 1..Len(s.elog) : s.elog[i].eng = e
  THEN s.elog[CHOOSE i \in 1..Len(s.elog) : s.elog[i].eng = e].blocks
  ELSE s.eBlocks

\* C27: an operation has at most one remote call outstanding: a create call is
\* outstanding exactly while the operation awaits it, and an invocation of the
\* retry wrapper begins only when the one before it has returned or thrown.
\* The batches of a run of insertBlocksInBatches are issued in document order,
\* each after the batch before it, its retries and its per-block fallback.
C27_OneCallAtATime ==
  \A p \in Procs :
    LET s == ps[p]
        n == Len(s.wlog)
    IN
    /\ OutstandingCreates(s) = (IF s.pc = "create" THEN 1 ELSE 0)
    /\ \A i \in 1..(n - 1) : Finished(s.wlog[i]) /\ Len(s.wlog[i].replies) >= 1
    /\ \A i \in 1..n : Len(s.wlog[i].waits) =
                          Len(s.wlog[i].replies) - (IF s.pc = "sleep" /\ i = n THEN 0 ELSE
                                                    IF Finished(s.wlog[i]) THEN 1 ELSE 0)
    /\ \A e \in 1..s.engs :
         LET calls == EngCalls(s, e)
             batches == SelectSeq(calls, LAMBDA w : w.ctx = "batch")
             sent == Flatten([c \in 1..Len(batches) |-> batches[c].children])
         IN /\ IsPrefix(sent, cleanBlocksForInsert(EngineBlocks(s, e)).cleaned)
            /\ \A c \in 1..Len(calls) :
                 (calls[c].ctx = "batch" /\ c > 1) =>
                   \/ calls[c - 1].ctx = "batch" /\ calls[c - 1].returned /\ calls[c - 1].code = 0
                   \/ calls[c - 1].ctx = "single" /\ Finished(calls[c - 1])

\* the first batch of 50 failed, its 50 blocks went out one by one, and only
\* then the second batch was issued
C27_Witness ==
  \E p \in Procs :
    LET s == ps[p] IN
    /\ Len(s.wlog) = MAX_BLOCKS_PER_INSERT + 2
    /\ s.wlog[1].ctx = "batch" /\ s.wlog[1].code # 0
    /\ Len(s.wlog[1].children) = MAX_BLOCKS_PER_INSERT
    /\ s.wlog[MAX_BLOCKS_PER_INSERT + 1].ctx = "single"
    /\ s.wlog[MAX_BLOCKS_PER_INSERT + 2].ctx = "batch"
    /\ s.pc = "create"

\* C30: convert, list-blocks, batch-delete and create-document are each issued
\* at most once in an operation; a non-success response to one of them ends the
\* operation with the message of that response, whatever its code, and the
\* failed call is the last remote call the operation issued.
C30_NoRetryOutsideCreateChildren ==
  \A p \in Procs :
    LET s == ps[p] IN
    /\ \A call \in {"convert", "list", "batchDelete", "createDocument"} :
         Cardinality(CallsOf(s, {call})) <= 1
    /\ s.failure.call # "none" =>
         /\ s.pc = "failed"
         /\ s.outcome.error = s.failure.msg
         /\ s.calls[Len(s.calls)].call = s.failure.call

\* a write cleared the document, its convert was answered with the throttling
\* code, and the write ended on it with that message
C30_Witness ==
  \E p \in Procs :
    LET s == ps[p] IN
    /\ s.op = "write" /\ s.pc = "failed"
    /\ s.failure = [call |-> "convert", code |-> CodeThrottle, msg |-> "too many requests"]
    /\ [i \in 1..Len(s.calls) |-> s.calls[i].call] = <<"list", "batchDelete", "convert">>
    /\ s.outcome.error = "too many requests"

\* the message matches one of the given patterns
MatchesOneOf(patterns, msg) == \E q \in patterns : PatternMatches(q, msg)

\* retryable by the rule: a code that is there and not 0, and a transient code
\* or a message that one of the patterns matches
RetryableByRule(code, msg, patterns) ==
  /\ code # NoCode /\ code # 0
  /\ code \in {429, 1254290, 1254291, 1255040} \/ MatchesOneOf(patterns, msg)

\* reply j of invocation i was followed by a wait and another attempt
Retried(s, i, j) == Len(s.wlog[i].waits) >= j

\* the classification agrees with the rule of the given patterns, as a function
\* and in what the retry wrapper did with every failing reply before the last
\* attempt
ClassifiesBy(patterns) ==
  /\ \A code \in ClassifyCodes, msg \in ClassifyMessages :
       isRetryableCreateError(code, msg) = RetryableByRule(code, msg, patterns)
  /\ \A p \in Procs : \A i \in 1..Len(ps[p].wlog) :
       LET w == ps[p].wlog[i] IN
       \A j \in 1..Len(w.replies) :
         /\ Retried(ps[p], i, j) =>
              RetryableByRule(w.replies[j].code, w.replies[j].msg, patterns)
         /\ (j < maxAttempts /\ w.returned /\ j = Len(w.replies) /\ w.replies[j].code # 0) =>
              ~RetryableByRule(w.replies[j].code, w.replies[j].msg, patterns)

\* C28 as stated: retryable exactly when the code is there and not 0 and it is
\* a transient code or the message matches one of the patterns rate, frequency,
\* too many, limit, qps.
C28_AsStated == ClassifiesBy({"rate", "frequency", "too many", "limit", "qps"})

\* C28: isRetryableCreateError is true exactly when the code is there and not 0
\* and either it is one of 429, 1254290, 1254291, 1255040, whatever the
\* message, or the message matches one of the seven patterns: the whole words
\* rate, frequency, limit, qps and the phrase too many in any case, and the two
\* words U+9891U+7387 and U+9650U+6D41 anywhere. Code 0 and no code are never
\* retryable.
C28_RetryableClassification ==
  ClassifiesBy({"rate", "frequency", "too many", "limit", "qps",
                "U+9891U+7387", "U+9650U+6D41"})

\* a reply with an unlisted code and the message "Rate Limit" was retried, and
\* the next one, with no code and the message "rate limit exceeded", was
\* returned at once
C28_Witness ==
  \E p \in Procs :
    LET s == ps[p] IN
    /\ Len(s.wlog) >= 1
    /\ Len(s.wlog[1].replies) = 2
    /\ s.wlog[1].replies[1].code = CodeInvalidParam /\ s.wlog[1].replies[1].msg = "Rate Limit"
    /\ s.wlog[1].replies[2].code = NoCode /\ s.wlog[1].replies[2].msg = "rate limit exceeded"
    /\ s.wlog[1].returned /\ Len(s.wlog[1].waits) = 1


\* the contents the store has appended to the root of the operation's document
\* for the operation's own create calls, in the order of the calls
AppliedRootContents(s) ==
  Flatten([k \in 1..Len(s.wlog) |->
    IF s.wlog[k].parent = s.docToken
    THEN Flatten([r \in 1..Len(s.wlog[k].replies) |->
           IF s.wlog[k].replies[r].applied THEN Contents(s.wlog[k].children) ELSE <<>>])
    ELSE <<>>])

\* what the operation's own calls make of the document it found
OwnDocumentFromOwnCalls(s) ==
  Contents(docs[s.docToken].root) =
    Contents(SubSeq(s.docBefore.root, s.deleted + 1, Len(s.docBefore.root)))
    \o AppliedRootContents(s)

\* a step of one operation changes that operation's local state and its own
\* document, and nothing of another operation or another document
StepsAreLocal ==
  \A p \in Procs :
    ps'[p] # ps[p] =>
      /\ \A q \in Procs \ {p} : ps'[q] = ps[q]
      /\ \A d \in DOMAIN docs : d # ps'[p].docToken => docs'[d] = docs[d]

\* C25: two operations on different documents, interleaved at their awaits in
\* any order, each behave as when run alone: no step of one changes the local
\* state or the document of the other, and each one's document is what its own
\* calls made of it.
C25_DifferentDocumentsIndependent ==
  /\ [](\A p \in Procs :
          (ps[p].pc # "idle" /\ \A q \in Procs \ {p} : ps[q].docToken # ps[p].docToken)
            => OwnDocumentFromOwnCalls(ps[p]))
  /\ [][StepsAreLocal]_vars

\* both operations have a create call outstanding at once, on different
\* documents; one has cleared its document, the other is in a retry
C25_Witness ==
  \E p, q \in Procs :
    /\ p # q
    /\ ps[p].docToken # ps[q].docToken
    /\ ps[p].pc = "create" /\ ps[q].pc = "create"
    /\ ps[p].op = "write" /\ ps[p].deleted > 0
    /\ ps[q].attempt > 1

\* C26: nothing excludes two operations from one document: an operation can
\* begin, and each of its awaited calls can return, whatever the other
\* operation is doing, so two writes of one document interleave freely.
C26_NoMutualExclusion ==
  \A p \in Procs :
    /\ ps[p].pc = "idle" => ENABLED Begin(p)
    /\ ps[p].pc = "list" => ENABLED ListReturn(p)
    /\ ps[p].pc = "delete" => ENABLED DeleteReturn(p)
    /\ ps[p].pc = "convert" => ENABLED ConvertReturn(p)
    /\ ps[p].pc = "create" => ENABLED CreateReturn(p)
    /\ ps[p].pc = "sleep" => ENABLED SleepReturn(p)

\* two writes of one document with different content have both returned
\* success with every block inserted, and the document is the content of
\* neither
C26_Witness ==
  \E p, q \in Procs :
    /\ p # q
    /\ ps[p].docToken = ps[q].docToken
    /\ ps[p].op = "write" /\ ps[q].op = "write"
    /\ ps[p].markdown # ps[q].markdown
    /\ ps[p].pc = "done" /\ ps[q].pc = "done"
    /\ ps[p].outcome.status = "ok" /\ ps[q].outcome.status = "ok"
    /\ ps[p].outcome.warnings = <<>> /\ ps[q].outcome.warnings = <<>>
    /\ ps[p].outcome.blocks_added = Len(ps[p].blocks)
    /\ ps[q].outcome.blocks_added = Len(ps[q].blocks)
    /\ Contents(docs[ps[p].docToken].root) # Contents(ps[p].blocks)
    /\ Contents(docs[ps[p].docToken].root) # Contents(ps[q].blocks)

\* C33: a pair is counted in images_processed only when its download, its
\* upload and its patch all succeeded (a patch answered with a non-success
\* response leaves the pair uncounted), and the patch of a pair is issued only
\* after its download and its upload succeeded.
C33_CountedOnlyWhenAllSucceeded ==
  \A p \in Procs :
    LET s == ps[p] IN
    \A i \in 1..Len(s.ilog) :
      /\ s.ilog[i].counted => PairSucceeded(s.ilog[i])
      /\ (s.ilog[i].patch # "none" \/ (i = Len(s.ilog) /\ s.pc = "patch")) =>
           (s.ilog[i].download = "ok" /\ s.ilog[i].upload = "ok")

\* the batch call whose per-block fallback the single call k belongs to
BatchOf(s, k) ==
  CHOOSE b \in 1..k : /\ s.wlog[b].ctx = "batch"
                      /\ \A c \in (b + 1)..k : s.wlog[c].ctx = "single"

\* C35: a create call that rejects ends its createChildrenWithRetry at that
\* attempt, with no wait and no further attempt. Rejected at batch level or in
\* insertBlocks, it ends the operation with that error and no further create
\* call; rejected in the per-block fallback, it is swallowed and the next block
\* of the batch is submitted.
C35_ThrownCreateHandling ==
  \A p \in Procs :
    LET s == ps[p]
        n == Len(s.wlog)
    IN \A k \in 1..n :
         LET w == s.wlog[k]
             r == Len(w.replies)
         IN /\ \A i \in 1..r :
                 w.replies[i].thrown =>
                   /\ i = r /\ w.thrown /\ ~w.returned
                   /\ Len(w.waits) = r - 1
                   /\ k = n => s.pc \notin {"create", "sleep"}
            /\ (w.thrown /\ w.ctx # "single") =>
                 /\ k = n /\ s.pc = "failed"
                 /\ s.outcome.status = "error" /\ s.outcome.error = w.replies[r].msg
            /\ (w.thrown /\ w.ctx = "single") =>
                 LET b == BatchOf(s, k)
                     j == k - b
                 IN /\ j < Len(s.wlog[b].children) =>
                         /\ k < n
                         /\ s.wlog[k + 1].ctx = "single"
                         /\ s.wlog[k + 1].parent = w.parent
                         /\ s.wlog[k + 1].children = <<s.wlog[b].children[j + 1]>>
                    /\ (k = n /\ s.pc = "failed") => s.outcome.error # w.replies[r].msg

\* a batch of two fails, the first single call rejects, the second one is
\* still made and succeeds, and the operation returns
C35_Witness ==
  \E p \in Procs :
    LET s == ps[p] IN
    /\ s.pc = "done" /\ Len(s.wlog) = 3
    /\ s.wlog[1].ctx = "batch" /\ s.wlog[1].returned /\ s.wlog[1].code # 0
    /\ s.wlog[2].ctx = "single" /\ s.wlog[2].thrown
    /\ s.wlog[3].ctx = "single" /\ s.wlog[3].returned /\ s.wlog[3].code = 0
    /\ s.outcome.blocks_added = 1

\* the contents of the blocks the operation has submitted for creation, one
\* entry per block of each batch or table payload; the attempts of one call
\* and the per-block resubmission of a failed batch are not counted again
SubmittedContents(s) ==
  Flatten([k \in 1..Len(s.wlog) |->
    IF s.wlog[k].ctx = "single" THEN <<>> ELSE Contents(s.wlog[k].children)])

\* C36: within one write/append no block of the converted collection is
\* submitted for creation more than once, neither twice under the root nor
\* under the root and under a table cell, whatever the first_level_block_ids.
C36_NoBlockSubmittedTwice ==
  \A p \in Procs :
    LET sub == SubmittedContents(ps[p])
    IN \A i, j \in 1..Len(sub) : sub[i] = sub[j] => i = j

\* the create-children calls the operation has made for the batch call b and
\* for the single calls of its per-block fallback
InvocationsFor(s, b) ==
  LET singles == {c \in (b + 1)..Len(s.wlog) :
                    \A d \in (b + 1)..c : s.wlog[d].ctx = "single"}
      Sum[c \in 0..Len(s.wlog)] ==
        IF c = 0 THEN 0
        ELSE Sum[c - 1] + (IF c = b \/ c \in singles THEN Len(s.wlog[c].replies) ELSE 0)
  IN Sum[Len(s.wlog)]

\* no call of the retry wrapper makes more than maxAttempts attempts, a chunk of
\* k sanitized blocks takes at most maxAttempts * (1 + k) create calls, there
\* are no more root chunks and tables than blocks to insert, and no more cell
\* chunks per table than blocks in the collection
InvocationsBounded ==
  \A p \in Procs :
    LET s == ps[p] IN
    /\ \A c \in 1..Len(s.wlog) : Len(s.wlog[c].replies) <= maxAttempts
    /\ \A b \in 1..Len(s.wlog) :
         s.wlog[b].ctx = "batch" =>
           InvocationsFor(s, b) <= maxAttempts * (1 + Len(s.wlog[b].children))
    /\ Cardinality({c \in 1..Len(s.wlog) :
                       s.wlog[c].ctx # "single" /\ s.wlog[c].parent = s.docToken})
         <= Len(s.orderedBlocks)
    /\ Cardinality({c \in 1..Len(s.wlog) :
                       s.wlog[c].ctx = "batch" /\ s.wlog[c].parent # s.docToken})
         <= Cardinality(TableCalls(s)) * Len(s.blocks)

Terminated == \A p \in Procs : ps[p].pc \in {"done", "failed"}

\* C37: provided every remote call and timer eventually returns, write/append
\* terminates whatever the responses, and a chunk of k sanitized blocks causes
\* at most maxAttempts * (1 + k) create-children calls.
C37_TerminatesWithinBound == []InvocationsBounded /\ <>Terminated

\* the operation has ended after a chunk of two blocks used every attempt of
\* the batch call and of both single calls: maxAttempts * 3 create calls
C37_Witness ==
  \E p \in Procs :
    LET s == ps[p] IN
    /\ s.pc \in {"done", "failed"}
    /\ Len(s.wlog) = 3 /\ Len(s.wlog[1].children) = 2
    /\ InvocationsFor(s, 1) = maxAttempts * 3

\* a copy returned by cleanBlocksForInsert: without block_id, parent_id,
\* children, cells and merge_info
IsSanitizedCopy(b) ==
  /\ b.block_id = 0 /\ b.parent_id = 0 /\ b.children = <<>>
  /\ b.cells = <<>> /\ b.merge_info = FALSE

\* a text block insertTableWithCells built from the text a source cell carries
IsCellText(s, b) ==
  \E c \in Range(s.blocks) :
    c.block_type = TTableCell /\ c.content # 0
    /\ b = Blk(0, 0, TText, <<>>, <<>>, FALSE, c.content)

\* C38: cleanBlocksForInsert leaves its input unchanged. After sanitation the
\* blocks to insert and the table being reconciled are still blocks of the
\* converted collection, with their block_id, parent_id, children, cells and
\* merge_info, so the cell loop reads the source cells; only the submitted
\* copies lack those fields.
C38_SanitationLeavesSourceIntact ==
  \A p \in Procs :
    LET s == ps[p]
        source == Range(s.blocks)
    IN /\ \A k \in 1..Len(s.wlog) :
            \A i \in 1..Len(s.wlog[k].children) : IsSanitizedCopy(s.wlog[k].children[i])
       /\ Range(s.orderedBlocks) \subseteq source
       /\ \A b \in Range(s.eBlocks) : b \in source \/ IsCellText(s, b)
       /\ Range(s.tableBlock) \subseteq source
       /\ \A t \in 1..Len(s.tlog) : s.tlog[t].table \in source
       /\ \A b \in source : b.block_id # 0

\* a table with cells has been submitted without its cells, and the content of
\* its source cells has then been copied under a created cell
C38_Witness ==
  \E p \in Procs :
    LET s == ps[p] IN
    /\ s.pc = "done"
    /\ \E t, c \in 1..Len(s.wlog) :
         /\ t < c
         /\ s.wlog[t].ctx = "table" /\ s.wlog[t].children[1].cells = <<>>
         /\ s.wlog[c].ctx = "batch" /\ s.wlog[c].parent # s.docToken
         /\ s.wlog[c].returned /\ s.wlog[c].code = 0
    /\ \E t \in 1..Len(s.tlog) : Len(s.tlog[t].table.cells) > 0 /\ s.tlog[t].table.merge_info

\* what the remote answered to the operation, without the ids of the document
\* it ran on: the calls issued, the list and convert results, the replies to
\* every create attempt, the failed call if any
Responses(s) ==
  [calls |-> s.calls, listed |-> s.listed, blocks |-> s.blocks,
   firstLevelBlockIds |-> s.firstLevelBlockIds,
   replies |-> [k \in 1..Len(s.wlog) |-> s.wlog[k].replies],
   failure |-> s.failure]

\* what the caller of writeDoc observes: the exception, or the result
Observed(s) ==
  [status |-> s.outcome.status, error |-> s.outcome.error,
   blocks_deleted |-> s.outcome.blocks_deleted, blocks_added |-> s.outcome.blocks_added,
   images_processed |-> s.outcome.images_processed,
   skipped |-> s.outcome.skipped, warnings |-> s.outcome.warnings]

\* C34: writeDoc of docx.ts and writeDoc of doc-write-service.ts, started on
\* documents of the same content with the same markdown and given the same
\* remote responses, issue the same calls and both return the same result or
\* both raise.
C34_WriteDocImplementationsAgree ==
  \A p, q \in Procs :
    LET s == ps[p]
        d == ps[q]
    IN (/\ s.op = "write" /\ s.impl = "service" /\ s.pc \in {"done", "failed"}
        /\ d.op = "write" /\ d.impl = "docx" /\ d.pc \in {"done", "failed"}
        /\ s.markdown = d.markdown
        /\ Contents(s.docBefore.root) = Contents(d.docBefore.root)
        /\ Responses(s) = Responses(d))
       => Observed(s) = Observed(d)

(***************************************************************************)
(* personality-adapter.ts: applyStylePresetSafely. A text is a sequence of *)
(* one-character strings.                                                  *)
(***************************************************************************)
\* the grave accent, which a string of this module cannot hold
Backtick == "GRAVE"

Whitespace == {" ", "\n", "\t"}

\* String.prototype.trim
TrimText(t) ==
  LET n == Len(t)
      lead == Cardinality({i \in 1..n : \A j \in 1..i : t[j] \in Whitespace})
      trail == Cardinality({i \in 1..n : \A j \in i..n : t[j] \in Whitespace})
  IN IF lead = n THEN <<>> ELSE SubSeq(t, lead + 1, n - trail)

\* the test of line 53 for a fenced code block: two fences that do not overlap
HasFencedBlock(t) ==
  LET fences == {i \in 1..(Len(t) - 2) : t[i] = Backtick /\ t[i + 1] = Backtick /\ t[i + 2] = Backtick}
  IN \E i, j \in fences : j >= i + 3

\* the /i flag, on the letters the sampled texts use
LowerChar(c) ==
  CASE c = "O" -> "o" [] c = "K" -> "k" [] c = "E" -> "e" [] c = "S" -> "s"
    [] c = "M" -> "m" [] OTHER -> c

\* (noted|oke|okay|siap|sip), in the order of the alternation
FillerWords ==
  <<<<"n", "o", "t", "e", "d">>, <<"o", "k", "e">>, <<"o", "k", "a", "y">>,
    <<"s", "i", "a", "p">>, <<"s", "i", "p">>>>

\* [,\s]
FillerSeparators == Whitespace \cup {","}

\* the word matches at the start of the text and a separator follows it
StartsWithFiller(t, w) ==
  /\ Len(t) > Len(w)
  /\ \A i \in 1..Len(w) : LowerChar(t[i]) = w[i]
  /\ t[Len(w) + 1] \in FillerSeparators

HasLeadingFiller(t) == \E k \in 1..Len(FillerWords) : StartsWithFiller(t, FillerWords[k])

\* out.replace(/^(noted|oke|okay|siap|sip)[,\s]+/i, "")
StripLeadingFiller(t) ==
  IF ~HasLeadingFiller(t) THEN t
  ELSE LET k == CHOOSE k \in 1..Len(FillerWords) :
                  /\ StartsWithFiller(t, FillerWords[k])
                  /\ \A h \in 1..(k - 1) : ~StartsWithFiller(t, FillerWords[h])
           rest == SubSeq(t, Len(FillerWords[k]) + 1, Len(t))
           run == Cardinality({i \in 1..Len(rest) : \A j \in 1..i : rest[j] \in FillerSeparators})
       IN SubSeq(rest, run + 1, Len(rest))

\* String.prototype.lastIndexOf, zero-based, -1 when the character is absent
LastIndexOf(t, c) ==
  LET at == {i \in 1..Len(t) : t[i] = c}
  IN IF at = {} THEN 0 - 1 ELSE (CHOOSE i \in at : \A j \in at : j <= i) - 1

\* the limit of line 63
StyleLimit(responseLength) ==
  IF responseLength = "short" THEN 360 ELSE IF responseLength = "medium" THEN 900 ELSE 1800

NoStyleContext == [defined |-> FALSE, responseLength |-> "long", directness |-> "balanced"]

applyStylePresetSafely(text, ctx) ==
  IF ~ctx.defined THEN text
  ELSE IF TrimText(text) = <<>> THEN text
  ELSE IF HasFencedBlock(text) THEN text
  ELSE LET trimmed == TrimText(text)
           out == IF ctx.directness = "high" THEN StripLeadingFiller(trimmed) ELSE trimmed
           limit == StyleLimit(ctx.responseLength)
       IN IF Len(out) > limit
          THEN LET clipped == SubSeq(out, 1, limit)
                   boundary == Max(Max(LastIndexOf(clipped, "."), LastIndexOf(clipped, "\n")),
                                   Max(LastIndexOf(clipped, "!"), LastIndexOf(clipped, "?")))
               IN TrimText(IF boundary > (limit * 6) \div 10
                           THEN SubSeq(clipped, 1, boundary + 1)
                           ELSE clipped)
          ELSE out

\* n times the character c
Repeat(c, n) == [i \in 1..n |-> c]

\* the lengths of the sampled bodies: short ones and the ones around each limit
StyleBodyLengths ==
  {1, StyleSlack} \cup UNION {(l - StyleSlack)..(l + StyleSlack) : l \in {360, 900, 1800}}

\* the sampled replies: a body with an inline code span and a tail; two
\* sentences; a reply behind a filler word; a fenced reply; a padded reply;
\* blank replies
StyleTexts ==
  {Repeat("x", n) \o <<Backtick, "M", Backtick, " ", "t", "a", "i", "l">> : n \in StyleBodyLengths}
  \cup {Repeat("x", n) \o <<".", " ">> \o Repeat("y", StyleSlack) : n \in StyleBodyLengths}
  \cup {<<"O", "k", "e", ",", " ">> \o Repeat("x", n) : n \in StyleBodyLengths}
  \cup {<<Backtick, Backtick, Backtick>> \o Repeat("x", n) \o <<Backtick, Backtick, Backtick>> : n \in StyleBodyLengths}
  \cup {<<" ">> \o Repeat("x", n) \o <<"\n">> : n \in StyleBodyLengths}
  \cup {<<>>, <<" ", "\n">>}

StyleContexts ==
  {NoStyleContext}
  \cup {[defined |-> TRUE, responseLength |-> l, directness |-> d] :
          l \in {"short", "medium", "long"}, d \in {"high", "balanced"}}

\* applyStylePresetSafely is called on a reply
InitStyle ==
  /\ \E text \in StyleTexts, ctx \in StyleContexts :
       ps = [p \in {1} |-> [pc |-> "call", text |-> text, ctx |-> ctx, out |-> <<>>]]
  /\ docs = <<>>
  /\ env = [family |-> "style"]

\* applyStylePresetSafely returns
StyleReturn(p) ==
  /\ ps[p].pc = "call"
  /\ ps' = [ps EXCEPT ![p].pc = "returned",
                      ![p].out = applyStylePresetSafely(ps[p].text, ps[p].ctx)]
  /\ UNCHANGED <<docs, env>>

NextStyle == \E p \in Procs : StyleReturn(p)

SpecStyle == InitStyle /\ [][NextStyle]_vars

\* C31: applyStylePresetSafely never truncates a reply: for a non-blank text
\* without a leading filler word and any style context, responseLength long
\* included, the result is the trimmed input in full.
C31_NeverTruncates ==
  \A p \in Procs :
    LET s == ps[p] IN
    (/\ s.pc = "returned" /\ s.ctx.defined
     /\ TrimText(s.text) # <<>>
     /\ ~HasLeadingFiller(TrimText(s.text)))
      => s.out = TrimText(s.text)

(***************************************************************************)
(* text/chunking.ts: chunkFeishuReplyText. A text is a sequence of         *)
(* one-character strings, a chunk list a sequence of texts.                *)
(***************************************************************************)
Backslash == "\\"

IsBlank(t) == \A i \in 1..Len(t) : t[i] \in Whitespace

\* String.prototype.trimEnd
TrimEnd(t) ==
  LET n == Len(t)
      trail == Cardinality({i \in 1..n : \A j \in i..n : t[j] \in Whitespace})
  IN SubSeq(t, 1, n - trail)

\* .filter((chunk) => chunk?.trim().length > 0)
NonBlank(chunks) == SelectSeq(chunks, LAMBDA c : ~IsBlank(c))

\* the positions at which a run of three grave accents starts
FenceStarts(t) ==
  {i \in 1..(Len(t) - 2) : t[i] = Backtick /\ t[i + 1] = Backtick /\ t[i + 2] = Backtick}

RECURSIVE FencedFrom(_, _)
\* the positions the matches of FENCED_CODE_BLOCK_RE cover, searching from
\* position from: the pattern is lazy and the matches do not overlap
FencedFrom(t, from) ==
  LET opens == {i \in FenceStarts(t) : i >= from}
  IN IF opens = {} THEN {}
     ELSE LET i == CHOOSE a \in opens : \A b \in opens : a <= b
              closes == {j \in FenceStarts(t) : j >= i + 3}
          IN IF closes = {} THEN {}
             ELSE LET j == CHOOSE a \in closes : \A b \in closes : a <= b
                  IN (i..(j + 2)) \cup FencedFrom(t, j + 3)

RECURSIVE ScanFrom(_, _, _, _)
\* the loop of scanInlineBackticks over the segments outside the fenced
\* blocks; lastIndex is zero-based
ScanFrom(t, fenced, i, acc) ==
  IF i > Len(t) THEN acc
  ELSE IF i \in fenced \/ t[i] # Backtick THEN ScanFrom(t, fenced, i + 1, acc)
  ELSE IF i > 1 /\ t[i - 1] = Backslash THEN ScanFrom(t, fenced, i + 1, acc)
  ELSE LET runLength ==
             Cardinality({k \in i..Len(t) :
                            \A j \in i..k : t[j] = Backtick /\ j \notin fenced})
       IN ScanFrom(t, fenced, i + runLength,
                   IF runLength = 1
                   THEN [count |-> acc.count + 1, lastIndex |-> i - 1]
                   ELSE acc)

scanInlineBackticks(t) ==
  ScanFrom(t, FencedFrom(t, 1), 1, [count |-> 0, lastIndex |-> 0 - 1])

RECURSIVE chunkMarkdownText(_, _)
\* textRuntime.chunkMarkdownText, a function of the host runtime: the text is
\* cut into pieces of at most limit characters, each cut made at the limit or
\* after the last white space before it
chunkMarkdownText(t, limit) ==
  IF Len(t) = 0 THEN {<<>>}
  ELSE IF Len(t) <= limit THEN {<<t>>}
  ELSE LET spaces == {i \in 1..limit : t[i] \in Whitespace}
           cuts == {limit} \cup (IF spaces = {} THEN {}
                                 ELSE {CHOOSE a \in spaces : \A b \in spaces : b <= a})
       IN UNION {{<<SubSeq(t, 1, cut)>> \o rest :
                    rest \in chunkMarkdownText(SubSeq(t, cut + 1, Len(t)), limit)} :
                 cut \in cuts}

RECURSIVE SplitLines(_)
\* the lines of a text
SplitLines(t) ==
  LET breaks == {i \in 1..Len(t) : t[i] = "\n"}
  IN IF breaks = {} THEN <<t>>
     ELSE LET i == CHOOSE a \in breaks : \A b \in breaks : a <= b
          IN <<SubSeq(t, 1, i - 1)>> \o SplitLines(SubSeq(t, i + 1, Len(t)))

RECURSIVE ChunkEach(_, _)
ChunkEach(lines, limit) ==
  IF lines = <<>> THEN {<<>>}
  ELSE {a \o b : a \in chunkMarkdownText(Head(lines), limit),
                 b \in ChunkEach(Tail(lines), limit)}

\* textRuntime.chunkMarkdownTextWithMode, a function of the host runtime: in
\* the mode "newline" the text is cut at its line breaks first
chunkMarkdownTextWithMode(t, limit, mode) ==
  IF mode = "newline" THEN ChunkEach(SplitLines(t), limit) ELSE chunkMarkdownText(t, limit)

RECURSIVE PackFrom(_, _, _, _)
\* the loop of packNewlineChunks from chunk i on
PackFrom(chunks, limit, i, st) ==
  IF i > Len(chunks)
  THEN IF st.current # <<>> THEN Append(st.packed, st.current) ELSE st.packed
  ELSE LET trimmed == TrimText(chunks[i])
           candidate == st.current \o <<"\n", "\n">> \o trimmed
       IN IF trimmed = <<>> THEN PackFrom(chunks, limit, i + 1, st)
          ELSE IF st.current = <<>>
          THEN PackFrom(chunks, limit, i + 1, [st EXCEPT !.current = trimmed])
          ELSE IF Len(candidate) <= limit
          THEN PackFrom(chunks, limit, i + 1, [st EXCEPT !.current = candidate])
          ELSE PackFrom(chunks, limit, i + 1,
                        [packed |-> Append(st.packed, st.current), current |-> trimmed])

packNewlineChunks(chunks, limit) ==
  IF Len(chunks) <= 1 THEN chunks
  ELSE PackFrom(chunks, limit, 1, [packed |-> <<>>, current |-> <<>>])

\* every text of at most MaxChunkText characters over the sampled alphabet
ChunkAlphabet == {"a", Backtick, " ", Backslash}

\* longer texts with a fenced block and with line breaks
FencedSamples ==
  LET F == <<Backtick, Backtick, Backtick>> IN
  {<<Backtick, "a">> \o F \o <<"a">> \o F \o <<"a", Backtick>>,
   <<"a", Backtick, " ">> \o F \o <<"a", Backtick>> \o F,
   <<Backtick, "a", "\n", "a", Backtick, "\n", "a">>,
   <<"a", "\n", "\n", Backtick, "a", " ", "a", Backtick, "\n", "a">>}

ChunkTexts ==
  UNION {[1..n -> ChunkAlphabet] : n \in 0..MaxChunkText} \cup FencedSamples

ChunkLimits == 2..MaxChunkLimit

\* chunkFeishuReplyText is called
InitChunk ==
  /\ \E text \in ChunkTexts, limit \in ChunkLimits, mode \in {"length", "newline"} :
       ps = [p \in {1} |-> [pc |-> "call", text |-> text, limit |-> limit, chunkMode |-> mode,
                            rebalanced |-> <<>>, index |-> 0, safety |-> 0,
                            maxIterations |-> 0, out |-> <<>>]]
  /\ docs = <<>>
  /\ env = [family |-> "chunk"]

\* chunkFeishuReplyText up to the loop of rebalanceInlineCodeChunks
ChunkBegin(p) ==
  LET s == ps[p] IN
  /\ s.pc = "call"
  /\ IF IsBlank(s.text)
     THEN ps' = [ps EXCEPT ![p].pc = "returned", ![p].out = <<>>]
     ELSE \E chunks \in chunkMarkdownTextWithMode(s.text, Max(1, s.limit), s.chunkMode) :
            LET base == NonBlank(chunks)
                packed == IF s.chunkMode = "newline"
                          THEN packNewlineChunks(base, Max(1, s.limit)) ELSE base
            IN ps' = [ps EXCEPT ![p].pc = "rebalance", ![p].rebalanced = packed,
                                ![p].index = 0, ![p].safety = 0,
                                ![p].maxIterations = Max(64, Len(packed) * 12)]
  /\ UNCHANGED <<docs, env>>

\* mutant: the head is kept whole and the span stays split
RebalanceStep_NoCarry(p) ==
  LET s == ps[p] IN
  /\ s.pc = "rebalance"
  /\ s.index < Len(s.rebalanced) - 1 /\ s.safety < s.maxIterations
  /\ ps' = [ps EXCEPT ![p].safety = @ + 1, ![p].index = @ + 1]
  /\ UNCHANGED <<docs, env>>

\* one iteration of the while loop of rebalanceInlineCodeChunks (lines 100-137)
RebalanceStep(p) ==
  LET s == ps[p]
      chunk == s.rebalanced[s.index + 1]
      scan == scanInlineBackticks(chunk)
      carry == SubSeq(chunk, scan.lastIndex + 1, Len(chunk))
      head == TrimEnd(SubSeq(chunk, 1, scan.lastIndex))
      next == carry \o s.rebalanced[s.index + 2]
      moved == [s.rebalanced EXCEPT ![s.index + 1] = head, ![s.index + 2] = next]
  IN
  /\ s.pc = "rebalance"
  /\ s.index < Len(s.rebalanced) - 1 /\ s.safety < s.maxIterations
  /\ IF scan.count % 2 = 0 \/ scan.lastIndex < 0
     THEN ps' = [ps EXCEPT ![p].safety = @ + 1, ![p].index = @ + 1]
     ELSE IF IsBlank(head)
     THEN ps' = [ps EXCEPT ![p].safety = @ + 1,
                           ![p].rebalanced = SubSeq(moved, 1, s.index)
                                             \o SubSeq(moved, s.index + 2, Len(moved)),
                           ![p].index = IF s.index > 0 THEN s.index - 1 ELSE s.index]
     ELSE IF Len(next) > s.limit
     THEN \E chunks \in chunkMarkdownText(next, s.limit) :
            LET expanded == NonBlank(chunks)
            IN ps' = [ps EXCEPT ![p].safety = @ + 1,
                                ![p].rebalanced =
                                  IF Len(expanded) > 1
                                  THEN SubSeq(moved, 1, s.index + 1) \o expanded
                                       \o SubSeq(moved, s.index + 3, Len(moved))
                                  ELSE moved]
     ELSE ps' = [ps EXCEPT ![p].safety = @ + 1, ![p].rebalanced = moved]
  /\ UNCHANGED <<docs, env>>

\* the loop has ended: the non-blank chunks are returned (line 139)
RebalanceReturn(p) ==
  LET s == ps[p] IN
  /\ s.pc = "rebalance"
  /\ ~(s.index < Len(s.rebalanced) - 1 /\ s.safety < s.maxIterations)
  /\ ps' = [ps EXCEPT ![p].pc = "returned", ![p].out = NonBlank(s.rebalanced)]
  /\ UNCHANGED <<docs, env>>

NextChunk ==
  \/ \E p \in Procs : ChunkBegin(p)
  \/ \E p \in Procs : RebalanceStep(p)
  \/ \E p \in Procs : RebalanceReturn(p)

SpecChunk == InitChunk /\ [][NextChunk]_vars

\* the characters of a text that are not white space, in order
Ink(t) == SelectSeq(t, LAMBDA c : c \notin Whitespace)

\* C32: every chunk chunkFeishuReplyText returns, except the last, holds an
\* even number of unescaped single grave accents outside fenced blocks; no
\* returned chunk is blank; and the text is retained to its tail: the chunks
\* hold the characters of the text, in order, white space aside.
C32_ChunksKeepInlineCodeWhole ==
  \A p \in Procs :
    LET s == ps[p] IN
    (s.pc = "returned" /\ "chunkMode" \in DOMAIN s) =>
      /\ \A i \in 1..(Len(s.out) - 1) : scanInlineBackticks(s.out[i]).count % 2 = 0
      /\ \A i \in 1..Len(s.out) : ~IsBlank(s.out[i])
      /\ Ink(Flatten(s.out)) = Ink(s.text)

\* a text whose first cut fell inside an inline code span has been returned in
\* two chunks, the span whole in the second
C32_Witness ==
  \E p \in Procs :
    LET s == ps[p] IN
    /\ s.pc = "returned" /\ "chunkMode" \in DOMAIN s
    /\ s.text = <<"a", " ", Backtick, "a", Backtick>> /\ s.limit = 3
    /\ s.out = <<<<"a">>, <<Backtick, "a", Backtick>>>>

(***************************************************************************)
(* Message deduplication (src/unnamed/part_009): tryRecordMessage.         *)
(* processedMessageIds is a Map, which iterates in insertion order: a      *)
(* sequence of entries, the oldest-inserted first. Times are milliseconds. *)
(***************************************************************************)
\* 30 * 60 * 1000
DEDUP_TTL_MS == 1800000
DEDUP_MAX_SIZE == 1000
\* 5 * 60 * 1000
DEDUP_CLEANUP_INTERVAL_MS == 300000

Minute == 60 * 1000

\* `${scope}:${messageId}`
dedupKey(scope, messageId) == <<scope, ":", messageId>>

\* message ids, "om_" and a number
MessageId(n) == <<"om", n>>

\* the calls made: a scope and a message id
DedupPairs ==
  {<<"default", MessageId(1)>>, <<"default", MessageId(2)>>, <<"other", MessageId(1)>>}
DedupKeys == {dedupKey(pair[1], pair[2]) : pair \in DedupPairs}

\* the amounts by which Date.now() advances between two calls
DedupTicks == {5 * Minute, 26 * Minute}

\* n further messages of a burst, all recorded in the millisecond ts
BurstEntries(n, ts) == [i \in 1..n |-> [key |-> dedupKey("default", MessageId(2 + i)), ts |-> ts]]

\* the keys of the map
RecordedKeys(map) == {map[i].key : i \in 1..Len(map)}

\* lines 11-18: the pass over the map, run when the last one is more than
\* DEDUP_CLEANUP_INTERVAL_MS ago
CleanedUp(map, lastCleanupTime, now) ==
  IF now - lastCleanupTime > DEDUP_CLEANUP_INTERVAL_MS
  THEN SelectSeq(map, LAMBDA e : ~(now - e.ts > DEDUP_TTL_MS))
  ELSE map

\* mutant: the oldest entry goes only once the map is over its size
Evicted_Late(map) == IF Len(map) > DEDUP_MAX_SIZE THEN Tail(map) ELSE map

\* lines 24-27
Evicted(map) == IF Len(map) >= DEDUP_MAX_SIZE THEN Tail(map) ELSE map

\* the module has been loaded; the map is empty, or a burst of messages has
\* been recorded in the millisecond of the load, "default:om_1" first
InitDedup ==
  /\ \E burst \in {0, DEDUP_MAX_SIZE - 2} :
       LET first == dedupKey("default", MessageId(1)) IN
       /\ env = [family |-> "dedup", now |-> 0, lastCleanupTime |-> 0,
                 processedMessageIds |->
                   IF burst = 0 THEN <<>>
                   ELSE <<[key |-> first, ts |-> 0]>> \o BurstEntries(burst, 0)]
       /\ ps = [p \in {1} |->
                 [pc |-> "idle", key |-> first, at |-> 0, result |-> FALSE,
                  seenAt |-> 0 - 1, others |-> 0, calls |-> 0,
                  recordedAt |-> [k \in DedupKeys |->
                                    IF burst > 0 /\ k = first THEN 0 ELSE 0 - 1],
                  othersSince |-> [k \in DedupKeys |-> IF k = first THEN burst ELSE 0]]]
  /\ docs = <<>>

\* Date.now() advances
DedupTick(p) ==
  /\ \E tick \in DedupTicks :
       /\ env.now + tick <= DedupHorizonMinutes * Minute
       /\ env' = [env EXCEPT !.now = @ + tick]
  /\ UNCHANGED <<ps, docs>>

\* tryRecordMessage(messageId, scope), lines 7-31
tryRecordMessage(p) ==
  \E pair \in DedupPairs :
    LET s == ps[p]
        now == env.now
        key == dedupKey(pair[1], pair[2])
        due == now - env.lastCleanupTime > DEDUP_CLEANUP_INTERVAL_MS
        cleaned == CleanedUp(env.processedMessageIds, env.lastCleanupTime, now)
        has == key \in RecordedKeys(cleaned)
        call == [s EXCEPT !.pc = "returned", !.key = key, !.at = now, !.result = ~has,
                          !.seenAt = s.recordedAt[key], !.others = s.othersSince[key],
                          !.calls = @ + 1]
    IN
    /\ s.calls < DedupCalls
    /\ env' = [env EXCEPT
                 !.lastCleanupTime = IF due THEN now ELSE @,
                 !.processedMessageIds =
                   IF has THEN cleaned
                   ELSE Append(Evicted(cleaned), [key |-> key, ts |-> now])]
    /\ ps' = [ps EXCEPT ![p] =
                IF has THEN call
                ELSE [call EXCEPT
                        !.recordedAt = [@ EXCEPT ![key] = now],
                        !.othersSince = [k \in DedupKeys |->
                                           IF k = key THEN 0 ELSE s.othersSince[k] + 1]]]
    /\ UNCHANGED docs

NextDedup ==
  \/ \E p \in Procs : DedupTick(p)
  \/ \E p \in Procs : tryRecordMessage(p)

SpecDedup == InitDedup /\ [][NextDedup]_vars

\* C39: tryRecordMessage returns true the first time a (scope, id) pair is
\* seen, whatever was recorded under another scope; false on every later call
\* for the pair made within DEDUP_TTL_MS of its recording, provided fewer than
\* DEDUP_MAX_SIZE other keys were recorded in between; and true again once
\* the recorded entry is older than DEDUP_TTL_MS.
C39_DedupWithinTtl ==
  \A p \in Procs :
    LET s == ps[p] IN
    (s.pc = "returned" /\ "seenAt" \in DOMAIN s) =>
      /\ s.seenAt < 0 => s.result
      /\ (s.seenAt >= 0 /\ s.at - s.seenAt <= DEDUP_TTL_MS /\ s.others < DEDUP_MAX_SIZE)
           => ~s.result
      /\ (s.seenAt >= 0 /\ s.at - s.seenAt > DEDUP_TTL_MS) => s.result

\* a step that is a call of tryRecordMessage
IsDedupCall == env.family = "dedup" /\ ps' # ps

\* C40 as stated: after every call the map holds at most DEDUP_MAX_SIZE
\* entries; a call that records a key into a full map evicts exactly the
\* oldest-inserted entry; a call that returns false leaves the map as it was.
C40_BoundedFifoAsStated ==
  [][IsDedupCall =>
       LET map == env.processedMessageIds
           after == env'.processedMessageIds
           s == ps'[1]
       IN /\ Len(after) <= DEDUP_MAX_SIZE
          /\ (s.result /\ Len(map) >= DEDUP_MAX_SIZE)
               => after = Append(Tail(map), [key |-> s.key, ts |-> s.at])
          /\ ~s.result => after = map]_vars

\* C40: after every call the map holds at most DEDUP_MAX_SIZE entries; the
\* call first drops the entries older than DEDUP_TTL_MS when the last pass is
\* more than DEDUP_CLEANUP_INTERVAL_MS ago; a call that records a key into a
\* map still full then evicts exactly the oldest-inserted entry; a call that
\* returns false removes nothing else and changes no entry's timestamp.
C40_BoundedFifo ==
  [][IsDedupCall =>
       LET map == env.processedMessageIds
           live == IF env.now - env.lastCleanupTime > DEDUP_CLEANUP_INTERVAL_MS
                   THEN SelectSeq(map, LAMBDA e : env.now - e.ts <= DEDUP_TTL_MS)
                   ELSE map
           after == env'.processedMessageIds
           s == ps'[1]
       IN /\ Len(after) <= DEDUP_MAX_SIZE
          /\ (s.result /\ Len(live) >= DEDUP_MAX_SIZE)
               => after = Append(Tail(live), [key |-> s.key, ts |-> s.at])
          /\ (s.result /\ Len(live) < DEDUP_MAX_SIZE)
               => after = Append(live, [key |-> s.key, ts |-> s.at])
          /\ ~s.result => after = live]_vars

\* a key has been recorded into the full map, and the oldest-inserted entry,
\* "default:om_1", is gone while the rest of the burst is still there
C40_Witness ==
  /\ env.family = "dedup"
  /\ Len(env.processedMessageIds) = DEDUP_MAX_SIZE
  /\ ps[1].pc = "returned" /\ ps[1].result
  /\ ps[1].recordedAt[dedupKey("default", MessageId(1))] = 0
  /\ dedupKey("default", MessageId(1)) \notin RecordedKeys(env.processedMessageIds)
  /\ env.processedMessageIds[1].key = dedupKey("default", MessageId(3))
  /\ env.processedMessageIds[DEDUP_MAX_SIZE].key = ps[1].key

====
